---- MODULE Spec2Model ----
(***************************************************************************)
(* A model of the pokemon-sleep-db client: the two-tier TTL caches of the  *)
(* data services (pokedex.ts, catalogDex, news), the main-skill write      *)
(* workflows (mainSkillsAdmin.ts), the creature search of the dex page,    *)
(* the news page's stale-while-revalidate loader and the id detection of   *)
(* the main-skill form.  Each subsystem has its own specification over a   *)
(* shared set of variables; the variables of the other subsystems stay at  *)
(* their initial values.                                                   *)
(***************************************************************************)
EXTENDS Integers, Sequences, FiniteSets, Bags, TLC

(***************************************************************************)
(* Bounds of the model.                                                    *)
(***************************************************************************)
MaxTicks == 3
MaxRows == 1
MaxInFlight == 1
MaxLevels == 2
MaxCalls == 2
MaxQueryLen == 3
MaxEntries == 3
MaxMounts == 2
MaxNewsLoads == 2
MaxNewsTicks == 1
MaxSeq == 6
MaxPageMounts == 2
MaxModalOpens == 2
MaxSkills == 2
MaxAuthTicks == 2
MaxLogins == 1
MaxKeys == 2
MaxPages == 2

(***************************************************************************)
(* Program constants.                                                      *)
(***************************************************************************)
DEX_CACHE_TTL_MS == 600000
CATALOG_CACHE_TTL_MS == 600000
MAIN_SKILL_LEVEL_CACHE_TTL_MS == 600000
NEWS_CACHE_TTL_MS == 480000
NEWS_EMPTY_CACHE_TTL_MS == 25000

VARIABLES
  \* ---- cache layer (pokedex.ts, catalogDex, news service)
  kind,               \* the cache key the scenario exercises
  now,                \* Date.now()
  ticks,              \* number of clock advances so far
  memoryCache,        \* the memory tier of every key
  sessionStore,       \* window.sessionStorage, the persisted tier of every key
  assetMapsPromise,   \* pokedex.ts assetMapsPromise: null, pending, resolved, rejected
  inflight,           \* the bag of loads awaiting a network response
  lastResult,         \* the result returned by the step just taken, if it settled a read
  invalidated,        \* ghost: invalidate ran and no read was started since
  mutated,            \* ghost: a mutation succeeded and no read was started since
  \* ---- main-skill write workflows (mainSkillsAdmin.ts)
  backend,            \* the backend: the mainskills row of the skill id, its level rows, the blobs
  call,               \* the running createMainSkillWithLevels / updateMainSkillWithLevels call
  trail,              \* ghost: what the running call has done so far
  \* ---- creature search (DexPage)
  loadState,          \* 'loading' | 'ready'
  allEntries,         \* the loaded creature list
  searchQuery,        \* the text of the search box
  filteredEntries,    \* the memoized result list
  \* ---- news page (NewsPage.tsx)
  instance,           \* the mounted NewsPage instance, 0 when none is mounted
  mounts,             \* the instances mounted so far
  isRevalidatingRef,  \* the instances whose isRevalidatingRef.current is true
  isForceRefreshing,  \* the instances whose isForceRefreshing is true
  newsLoads,          \* the loadNews calls awaiting fetchPokemonNews
  lastLoad,           \* ghost: what the step just taken settled and issued
  \* ---- main-skill form (MainSkillCreatePage)
  formMounted,             \* the form is mounted
  manualSkillId,           \* the text of the id input
  resolveRequestSeqRef,    \* resolveRequestSeqRef.current
  debounceTimer,           \* the pending timeout of debounceTimerRef, with its arguments
  lookups,                 \* the detection lookups awaiting fetchMainSkillDraft
  isResolvingSkillId,
  resolvedExistingSkillId,
  lastCheckedSkillId,
  form,                    \* the name and image_url fields
  isSubmitting,
  submission,              \* the running submission
  lastIssued,              \* ghost: the number of the request issued last
  lastResponse,            \* ghost: the detection response the step just taken settled
  \* ---- data-loading views (DexPage, NewsPage, AssetDexPage, UnifiedDexEditPage)
  page,                    \* the page the scenario shows
  pageInstance,            \* the mounted instance of the page, 0 when none is mounted
  pageMounts,              \* the instances mounted so far
  pageLoadState,           \* loadState of the mounted instance
  pageEntries,             \* its entries / news / draft: "none" or "data"
  toasts,                  \* the ids of the toasts of the global toast store
  pageLoads,               \* the loads awaiting their service call
  revalidating,            \* the NewsPage instances whose isRevalidatingRef.current is true
  selectedMainSkill,       \* AssetDexPage selectedMainSkill, 0 for null
  mainSkillLevels,         \* AssetDexPage mainSkillLevels: "none" or "data"
  modalLoadState,          \* AssetDexPage modalLoadState
  modalLoadSeqRef,         \* AssetDexPage modalLoadSeqRef.current
  modalLoads,              \* the openMainSkillModal calls awaiting fetchMainSkillLevels
  lastSettle,              \* ghost: what the load settled by the step just taken did
  \* ---- session manager (AuthProvider, loadPersistedSession, authSessionGuard.ts)
  envConfigured,           \* SUPABASE_URL and SUPABASE_ANON_KEY are set
  authNow,                 \* Date.now()
  authTicks,               \* number of clock advances so far
  lastNotifyAt,            \* authSessionGuard.ts lastNotifyAt
  dispatches,              \* ghost: the times at which the expiry event was dispatched
  persisted,               \* the session in localStorage, 0 when none
  session,                 \* AuthProvider session, 0 for null
  profile,                 \* AuthProvider profile, 0 for null
  isReady,                 \* AuthProvider isReady
  disposed,                \* the mount effect of AuthProvider was cleaned up
  bootPc,                  \* where bootstrap() is
  bootSession,             \* the persisted session bootstrap() read
  loginPc,                 \* where login() is
  logins,                  \* logins started so far
  logoutPc,                \* where logout() is
  expiredSession,          \* ghost: the held session for which an expiry was detected
  lastBoot,                \* ghost: how the bootstrap ended, if the step just taken ended it
  lastNotice,              \* ghost: the notifyAuthSessionExpired call of the step just taken
  \* ---- expiry classification (authSessionGuard.ts isAuthExpiredError)
  lastCall,                \* the classification made last
  \* ---- table names of writes (catalogDex updateAssetDexEntry / deleteAssetDexEntry, mainSkillsAdmin)
  exposed,                 \* the table names the backend exposes
  tableWrite,              \* the write in flight
  lastTableWrite,          \* the write that returned last (ghost)
  \* ---- validation of a submit (UnifiedDexEditPage submit, MainSkillCreatePage submitDraft)
  screen,                  \* the form on screen: "edit" (creature) or "skill" (main skill)
  pokemonDraft,            \* creature form: main_skill_id text and the chosen image files
  skillDraft,              \* main-skill form: its fields and one level row
  submitPc,                \* where the running submit stands
  requests,                \* network requests the running submit has issued
  lastSubmit,              \* the submit that ended last (ghost)
  \* ---- extra-effects popover of the asset page (openExtraEffectsPopover, toExtraEffectsTable)
  extraEffectsPopover,     \* the popover state: null or the table it shows with its placement
  closeExtraEffectsTimer,  \* closeExtraEffectsTimerRef: "null" or "armed"
  openedEffects,           \* the extra_effects value and outcome of the last open call (ghost)
  \* ---- incremental reveal of the dex page (DexPage: visibleCount, isLoadingMore, the observer)
  revealLoadState,         \* loadState of the page: "loading", "ready" or "error"
  revealEntries,           \* allEntries, as the number of entries each query keeps
  revealQuery,             \* searchQuery of the page
  visibleCount,            \* visibleCount
  isLoadingMore,           \* isLoadingMore
  revealFrame,             \* the requestAnimationFrame callback that is scheduled, with what it captured
  lastReveal,              \* the step taken last and whether it ran a callback scheduled before a query change (ghost)
  \* ---- update of one entity with image replacement (UnifiedDexEditPage submit)
  editKind,                \* kind of the edit page: "pokemon" or an asset catalog
  editInitial,             \* initialPokemonNormalImageUrl / initialPokemonShinyImageUrl / initialAssetImageUrl
  editDraft,               \* the image URL texts of the draft and whether a local file is chosen
  editPc,                  \* where the running submit stands
  editImageUrls,           \* normalImageUrl / shinyImageUrl / imageUrl of the running submit
  editStorage,             \* the image objects in storage
  editRow,                 \* the image URLs of the stored row
  editLog,                 \* the requests of the submit and how they ended (ghost)
  editOutcome              \* the toast of the submit that ended last, and whether the cache was invalidated

cacheVars == <<kind, now, ticks, memoryCache, sessionStore, assetMapsPromise,
               inflight, lastResult, invalidated, mutated>>

writeVars == <<backend, call, trail>>

searchVars == <<loadState, allEntries, searchQuery, filteredEntries>>

newsVars == <<instance, mounts, isRevalidatingRef, isForceRefreshing, newsLoads, lastLoad>>

formVars == <<formMounted, manualSkillId, resolveRequestSeqRef, debounceTimer, lookups,
              isResolvingSkillId, resolvedExistingSkillId, lastCheckedSkillId, form,
              isSubmitting, submission, lastIssued, lastResponse>>

viewsVars == <<page, pageInstance, pageMounts, pageLoadState, pageEntries, toasts,
               pageLoads, revalidating, selectedMainSkill, mainSkillLevels,
               modalLoadState, modalLoadSeqRef, modalLoads, lastSettle>>

authVars == <<envConfigured, authNow, authTicks, lastNotifyAt, dispatches, persisted,
              session, profile, isReady, disposed, bootPc, bootSession, loginPc, logins,
              logoutPc, expiredSession, lastBoot, lastNotice>>

guardVars == <<lastCall>>

tablesVars == <<exposed, tableWrite, lastTableWrite>>

validVars == <<screen, pokemonDraft, skillDraft, submitPc, requests, lastSubmit>>

effectsVars == <<extraEffectsPopover, closeExtraEffectsTimer, openedEffects>>

revealVars == <<revealLoadState, revealEntries, revealQuery, visibleCount,
                isLoadingMore, revealFrame, lastReveal>>

editVars == <<editKind, editInitial, editDraft, editPc, editImageUrls, editStorage,
              editRow, editLog, editOutcome>>

vars == <<cacheVars, writeVars, searchVars, newsVars, formVars, viewsVars, authVars, guardVars, tablesVars, validVars, effectsVars, revealVars, editVars>>

\* What the operations of one subsystem leave alone.
notCache == <<writeVars, searchVars, newsVars, formVars, viewsVars, authVars, guardVars, tablesVars, validVars, effectsVars, revealVars, editVars>>
notWrite == <<cacheVars, searchVars, newsVars, formVars, viewsVars, authVars, guardVars, tablesVars, validVars, effectsVars, revealVars, editVars>>
notSearch == <<cacheVars, writeVars, newsVars, formVars, viewsVars, authVars, guardVars, tablesVars, validVars, effectsVars, revealVars, editVars>>
notNews == <<writeVars, searchVars, formVars, viewsVars, authVars, guardVars, tablesVars, validVars, effectsVars, revealVars, editVars>>
notForm == <<cacheVars, writeVars, searchVars, newsVars, viewsVars, authVars, guardVars, tablesVars, validVars, effectsVars, revealVars, editVars>>
notViews == <<cacheVars, writeVars, searchVars, newsVars, formVars, authVars, guardVars, tablesVars, validVars, effectsVars, revealVars, editVars>>
notAuth == <<cacheVars, writeVars, searchVars, newsVars, formVars, viewsVars, guardVars, tablesVars, validVars, effectsVars, revealVars, editVars>>
notGuard == <<cacheVars, writeVars, searchVars, newsVars, formVars, viewsVars, authVars, tablesVars, validVars, effectsVars, revealVars, editVars>>
notTables == <<cacheVars, writeVars, searchVars, newsVars, formVars, viewsVars, authVars, guardVars, validVars, effectsVars, revealVars, editVars>>
notValid == <<cacheVars, writeVars, searchVars, newsVars, formVars, viewsVars, authVars, guardVars, tablesVars, effectsVars, revealVars, editVars>>
notEffects == <<cacheVars, writeVars, searchVars, newsVars, formVars, viewsVars, authVars, guardVars, tablesVars, validVars, revealVars, editVars>>
notReveal == <<cacheVars, writeVars, searchVars, newsVars, formVars, viewsVars, authVars, guardVars, tablesVars, validVars, effectsVars, editVars>>
notEdit == <<cacheVars, writeVars, searchVars, newsVars, formVars, viewsVars, authVars, guardVars, tablesVars, validVars, effectsVars, revealVars>>

----------------------------------------------------------------------------
(***************************************************************************)
(* Cache layer                                                             *)
(***************************************************************************)
Catalogs == {"berries", "ingredients", "mainskills", "subskills"}
CacheKinds == {"dex", "news", "levels"} \cup Catalogs

\* tableCandidates of catalogDex, levelTableCandidates of
\* resolveMainSkillLevelRows, and the single tables of pokedex.ts and news.
tableCandidates(k) ==
  CASE k = "berries" -> <<"berries">>
    [] k = "ingredients" -> <<"ingredients">>
    [] k = "mainskills" -> <<"mainskills", "main_skills">>
    [] k = "subskills" -> <<"subskills", "sub_skills">>
    [] k = "levels" -> <<"mainskill_levels", "main_skill_levels">>
    [] k = "dex" -> <<"pokemons">>
    [] k = "news" -> <<"pokemon_news">>

\* The TTL a promoted or freshly loaded entry of kind k gets.
CacheTtl(k) ==
  CASE k = "dex" -> DEX_CACHE_TTL_MS
    [] k = "news" -> NEWS_CACHE_TTL_MS
    [] k = "levels" -> MAIN_SKILL_LEVEL_CACHE_TTL_MS
    [] OTHER -> CATALOG_CACHE_TTL_MS

\* Only the list caches have a persisted tier; the level cache is a Map in memory.
HasSessionTier(k) == k # "levels"

\* Rows as delivered by the network: their number, and (ghost) the time `at`
\* the response arrived.
NoData == [rows |-> 0, at |-> 0]
NoEntry == [has |-> FALSE, expiresAt |-> 0, data |-> NoData]
Entry(exp, d) == [has |-> TRUE, expiresAt |-> exp, data |-> d]

\* A load result: source, fromCache and data are the fields the services return;
\* the rest is ghost: the tier the data was taken from (origin), the network
\* requests the read issued (calls), the clock value at which the result was
\* handed over (readAt), the expiry of the entry the data was taken from, whether
\* the read was answered from a tier as the first read after an invalidation,
\* whether it was a forced read, the tables the read queried in the order of
\* the queries (queried), whether each query answered ok (answers), and the
\* table whose rows are returned (table).
NoResult == [source |-> "none", fromCache |-> FALSE, origin |-> "none",
             data |-> NoData, calls |-> 0, readAt |-> 0, servedExpiresAt |-> 0,
             sinceInvalidate |-> FALSE, sinceMutation |-> FALSE, force |-> FALSE,
             queried |-> <<>>, answers |-> <<>>, table |-> "none", assets |-> "null"]

\* readDexSessionCache / readSessionCache: the entry when it is unexpired.
SessionFresh(k, t) == sessionStore[k].has /\ ~(sessionStore[k].expiresAt <= t)

\* The persisted tier after readSessionCache(now): an expired entry is removed.
SessionAfterRead(k, t) ==
  IF sessionStore[k].has /\ sessionStore[k].expiresAt <= t
    THEN [sessionStore EXCEPT ![k] = NoEntry]
    ELSE sessionStore

\* A freshness test that also serves an entry at the instant it expires.
MemoryFreshInclusive(k, t) == memoryCache[k].has /\ memoryCache[k].expiresAt >= t

\* `memory && memory.expiresAt > now`
MemoryFresh(k, t) == memoryCache[k].has /\ memoryCache[k].expiresAt > t

\* The expiry a persisted entry gets when it is promoted into memory.
PromotedExpiresAt(k, t) == t + CacheTtl(k)

\* The result of a read answered from a tier without a network request.
HitResult(origin, entry, t) ==
  [source |-> "supabase", fromCache |-> (kind = "news"), origin |-> origin,
   data |-> entry.data, calls |-> 0, readAt |-> t,
   servedExpiresAt |-> entry.expiresAt, sinceInvalidate |-> invalidated,
   sinceMutation |-> mutated, force |-> FALSE, queried |-> <<>>, answers |-> <<>>, table |-> "none",
   assets |-> "null"]

\* The result of a load that went to the network and got rows.
NetworkResult(req, d) ==
  [source |-> "supabase", fromCache |-> FALSE, origin |-> "network", data |-> d,
   calls |-> req.calls, readAt |-> now, servedExpiresAt |-> 0,
   sinceInvalidate |-> FALSE, sinceMutation |-> FALSE, force |-> req.force,
   queried |-> req.queried, answers |-> Append(req.answers, TRUE),
   table |-> req.queried[Len(req.queried)], assets |-> req.assets]

\* fetchPokemonNews, empty answer with a previous non-empty memory entry: the
\* previous data is returned with fromCache set.
RetainedResult(req, entry) ==
  [source |-> "supabase", fromCache |-> TRUE, origin |-> "memory", data |-> entry.data,
   calls |-> req.calls, readAt |-> now, servedExpiresAt |-> entry.expiresAt,
   sinceInvalidate |-> FALSE, sinceMutation |-> FALSE, force |-> req.force,
   queried |-> req.queried, answers |-> Append(req.answers, TRUE), table |-> "none",
   assets |-> req.assets]

\* The `catch` of every fetch function: a typed fallback result.
FallbackResult(req) ==
  [source |-> "fallback", fromCache |-> FALSE, origin |-> "none", data |-> NoData,
   calls |-> req.calls, readAt |-> now, servedExpiresAt |-> 0,
   sinceInvalidate |-> FALSE, sinceMutation |-> FALSE, force |-> req.force,
   queried |-> req.queried, answers |-> Append(req.answers, FALSE), table |-> "none",
   assets |-> req.assets]

\* A read is answered from a tier when it is not forced and a tier is fresh.
ServedFromMemory(force) == ~force /\ MemoryFresh(kind, now)
ServedFromSession(force) ==
  ~force /\ ~MemoryFresh(kind, now) /\ HasSessionTier(kind) /\ SessionFresh(kind, now)
IsCacheHit(force) == ServedFromMemory(force) \/ ServedFromSession(force)

\* The network requests a cache miss issues at once: the table read, and for the
\* creature list the three asset tables when getAssetMaps has no promise yet.
FirstCalls == IF kind = "dex" /\ assetMapsPromise = "null" THEN 4 ELSE 1

\* A load in flight: the force option, the candidate table being queried (idx),
\* the requests issued so far, the `now` local, which only
\* fetchMainSkillLevels reads again after the await, the tables queried so far,
\* the answers of the queries that settled and, as a ghost, the state of
\* assetMapsPromise the call found.
NewLoad(force) ==
  [force |-> force, idx |-> 1, calls |-> FirstCalls,
   nowAtCall |-> IF kind = "levels" THEN now ELSE 0,
   queried |-> <<tableCandidates(kind)[1]>>, answers |-> <<>>,
   assets |-> assetMapsPromise]

\* The `catch` in the loop of resolveRows / resolveMainSkillLevelRows: the
\* error is kept and the next candidate is queried.
NextCandidate(req) ==
  [req EXCEPT !.idx = @ + 1, !.calls = @ + 1,
              !.queried = Append(@, tableCandidates(kind)[req.idx + 1]),
              !.answers = Append(@, FALSE)]

\* The two early returns of a fetch function: the memory entry, or the persisted
\* entry, which is promoted into memory.
AnswerFromTier(force) ==
  IF ServedFromMemory(force) THEN
    /\ lastResult' = HitResult("memory", memoryCache[kind], now)
    /\ UNCHANGED <<memoryCache, sessionStore>>
  ELSE
    /\ memoryCache' = [memoryCache EXCEPT
          ![kind] = Entry(PromotedExpiresAt(kind, now), sessionStore[kind].data)]
    /\ lastResult' = HitResult("session", sessionStore[kind], now)
    /\ UNCHANGED sessionStore

\* fetchDexEntries / fetchAssetDexEntries / fetchPokemonNews / fetchMainSkillLevels
\* up to the first await.
StartRead(force) ==
  /\ UNCHANGED notCache
  /\ force => kind = "news"
  /\ invalidated' = FALSE
  /\ mutated' = FALSE
  /\ UNCHANGED <<kind, now, ticks>>
  /\ IF IsCacheHit(force) THEN
       /\ AnswerFromTier(force)
       /\ UNCHANGED <<assetMapsPromise, inflight>>
     ELSE
       /\ BagCardinality(inflight) < MaxInFlight
       /\ sessionStore' = IF force \/ ~HasSessionTier(kind)
                            THEN sessionStore ELSE SessionAfterRead(kind, now)
       /\ inflight' = inflight (+) SetToBag({NewLoad(force)})
       /\ assetMapsPromise' = IF kind = "dex" /\ assetMapsPromise = "null"
                                THEN "pending" ELSE assetMapsPromise
       /\ lastResult' = NoResult
       /\ UNCHANGED memoryCache

\* writeDexCache / writeCache: the memory tier is set, the persisted tier too
\* unless setItem throws (persistOk = FALSE), which is swallowed.
WrittenMemory(exp, d) == [memoryCache EXCEPT ![kind] = Entry(exp, d)]
WrittenSession(exp, d, persistOk) ==
  IF persistOk THEN [sessionStore EXCEPT ![kind] = Entry(exp, d)] ELSE sessionStore

\* The memory entry fetchPokemonNews falls back to on an empty answer:
\* `newsMemoryCache?.data ?? []`, non-empty.
HasPreviousValid == memoryCache[kind].has /\ memoryCache[kind].data.rows > 0

\* The expiry fetchMainSkillLevels stamps: the `now` read before the await.
LevelExpiresAt(req) == req.nowAtCall + MAIN_SKILL_LEVEL_CACHE_TTL_MS

\* A table read answers ok with `rows` rows.
RespondOk(req, rows, persistOk) ==
  LET d == [rows |-> rows, at |-> now] IN
  /\ inflight' = inflight (-) SetToBag({req})
  /\ IF kind = "news" THEN
       IF rows > 0 THEN
         /\ memoryCache' = WrittenMemory(now + NEWS_CACHE_TTL_MS, d)
         /\ sessionStore' = WrittenSession(now + NEWS_CACHE_TTL_MS, d, persistOk)
         /\ lastResult' = NetworkResult(req, d)
       ELSE IF HasPreviousValid THEN
         /\ memoryCache' = WrittenMemory(now + NEWS_EMPTY_CACHE_TTL_MS, memoryCache[kind].data)
         /\ sessionStore' = WrittenSession(now + NEWS_EMPTY_CACHE_TTL_MS,
                                           memoryCache[kind].data, persistOk)
         /\ lastResult' = RetainedResult(req, memoryCache[kind])
       ELSE
         /\ memoryCache' = WrittenMemory(now + NEWS_EMPTY_CACHE_TTL_MS, d)
         /\ sessionStore' = WrittenSession(now + NEWS_EMPTY_CACHE_TTL_MS, d, persistOk)
         /\ lastResult' = NetworkResult(req, d)
     ELSE IF kind = "levels" THEN
       /\ memoryCache' = WrittenMemory(LevelExpiresAt(req), d)
       /\ sessionStore' = sessionStore
       /\ lastResult' = NetworkResult(req, d)
     ELSE
       /\ memoryCache' = WrittenMemory(now + CacheTtl(kind), d)
       /\ sessionStore' = WrittenSession(now + CacheTtl(kind), d, persistOk)
       /\ lastResult' = NetworkResult(req, d)

\* A table read fails: resolveRows / resolveMainSkillLevelRows query the next
\* candidate, and with none left the load returns a fallback result.
RespondErrorGivesUp(req) ==
  /\ UNCHANGED <<memoryCache, sessionStore>>
  /\ inflight' = inflight (-) SetToBag({req})
  /\ lastResult' = FallbackResult(req)
RespondError(req) ==
  /\ UNCHANGED <<memoryCache, sessionStore>>
  /\ IF req.idx < Len(tableCandidates(kind)) THEN
       /\ inflight' = (inflight (-) SetToBag({req})) (+)
                        SetToBag({NextCandidate(req)})
       /\ lastResult' = NoResult
     ELSE
       /\ inflight' = inflight (-) SetToBag({req})
       /\ lastResult' = FallbackResult(req)

\* fetchDexEntries when getAssetMaps() rejects although the creature table
\* answered: Promise.all rejects and the `catch` returns a fallback result.
AssetMapsRejected(req) ==
  /\ UNCHANGED <<memoryCache, sessionStore>>
  /\ inflight' = inflight (-) SetToBag({req})
  /\ lastResult' = [FallbackResult(req) EXCEPT !.answers = Append(req.answers, TRUE)]

\* The response of a load in flight arrives.  The creature list waits for
\* Promise.all([getAssetMaps(), fetchTable('pokemons')]) and fails when either fails.
Respond(req, ok, rows, persistOk) ==
  /\ UNCHANGED notCache
  /\ BagIn(req, inflight)
  /\ kind = "dex" => assetMapsPromise # "pending"
  /\ UNCHANGED <<kind, now, ticks, assetMapsPromise, invalidated, mutated>>
  /\ IF ok /\ (kind = "dex" => assetMapsPromise = "resolved")
       THEN RespondOk(req, rows, persistOk)
     ELSE IF ok
       THEN AssetMapsRejected(req)
     ELSE RespondError(req)

\* The three asset table reads of getAssetMaps settle; the promise is kept.
AssetMapsSettle(ok) ==
  /\ UNCHANGED notCache
  /\ assetMapsPromise = "pending"
  /\ assetMapsPromise' = IF ok THEN "resolved" ELSE "rejected"
  /\ lastResult' = NoResult
  /\ UNCHANGED <<kind, now, ticks, memoryCache, sessionStore, inflight, invalidated, mutated>>

\* invalidateDexCache / invalidateAssetDexCache(catalog)
Invalidate ==
  /\ UNCHANGED notCache
  /\ kind \in {"dex"} \cup Catalogs
  /\ memoryCache' = [memoryCache EXCEPT ![kind] = NoEntry]
  /\ sessionStore' = [sessionStore EXCEPT ![kind] = NoEntry]
  /\ invalidated' = TRUE
  /\ UNCHANGED mutated
  /\ lastResult' = NoResult
  /\ UNCHANGED <<kind, now, ticks, assetMapsPromise, inflight>>

\* The cache the caller of a mutation invalidates once the mutation
\* succeeded: invalidateDexCache() after updatePokemonEntry and
\* deletePokemonEntry, invalidateAssetDexCache(catalog) after
\* updateAssetDexEntry, and invalidateAssetDexCache('mainskills') after
\* createMainSkillWithLevels / updateMainSkillWithLevels, which write the
\* level rows as well.  No function clears mainSkillLevelMemoryCache.
InvalidatedAfterMutation(k) == IF k = "levels" THEN "mainskills" ELSE k

\* A mutation of the resource of `kind` succeeds and its caller invalidates.
MutationSucceeds ==
  /\ UNCHANGED notCache
  /\ kind \in {"dex", "levels"} \cup Catalogs
  /\ LET target == InvalidatedAfterMutation(kind)
     IN /\ memoryCache' = [memoryCache EXCEPT ![target] = NoEntry]
        /\ sessionStore' = [sessionStore EXCEPT ![target] = NoEntry]
        /\ invalidated' = (invalidated \/ target = kind)
  /\ mutated' = TRUE
  /\ lastResult' = NoResult
  /\ UNCHANGED <<kind, now, ticks, assetMapsPromise, inflight>>

\* A full page reload: module state is lost, sessionStorage survives.
Reload ==
  /\ UNCHANGED notCache
  /\ memoryCache' = [k \in CacheKinds |-> NoEntry]
  /\ assetMapsPromise' = "null"
  /\ inflight' = EmptyBag
  /\ lastResult' = NoResult
  /\ UNCHANGED <<kind, now, ticks, sessionStore, invalidated, mutated>>

\* The clock advances.
TickSteps ==
  {1, CacheTtl(kind) - 1} \cup (IF kind = "news" THEN {NEWS_EMPTY_CACHE_TTL_MS - 1} ELSE {})

Tick(d) ==
  /\ UNCHANGED notCache
  /\ ticks < MaxTicks
  /\ now' = now + d
  /\ ticks' = ticks + 1
  /\ lastResult' = NoResult
  /\ UNCHANGED <<kind, memoryCache, sessionStore, assetMapsPromise, inflight, invalidated, mutated>>

\* What a table read can deliver: only the news service looks at the number of
\* rows, and only a kind with a persisted tier calls setItem.
RowChoices == IF kind = "news" THEN 0..MaxRows ELSE {MaxRows}
PersistChoices == IF HasSessionTier(kind) THEN BOOLEAN ELSE {TRUE}

InitCache ==
  /\ kind \in CacheKinds
  /\ now = 0
  /\ ticks = 0
  /\ memoryCache = [k \in CacheKinds |-> NoEntry]
  /\ sessionStore = [k \in CacheKinds |-> NoEntry]
  /\ assetMapsPromise = "null"
  /\ inflight = EmptyBag
  /\ lastResult = NoResult
  /\ invalidated = FALSE
  /\ mutated = FALSE

NextCache ==
  \/ \E force \in BOOLEAN : StartRead(force)
  \/ \E req \in BagToSet(inflight), rows \in RowChoices, persistOk \in PersistChoices :
       Respond(req, TRUE, rows, persistOk)
  \/ \E req \in BagToSet(inflight) : Respond(req, FALSE, 0, TRUE)
  \/ \E ok \in BOOLEAN : AssetMapsSettle(ok)
  \/ Invalidate
  \/ MutationSucceeds
  \/ Reload
  \/ \E d \in TickSteps : Tick(d)

----------------------------------------------------------------------------
(***************************************************************************)
(* Main-skill write workflows (mainSkillsAdmin.ts)                         *)
(***************************************************************************)
\* The values of the text fields a call writes (name, chinese_name, description).
Descriptions == {"a", "b"}

\* How a request can end: answered 2xx, answered with an error status, or
\* not answered at all (fetch rejects).
Outcomes == {"ok", "rejected", "unreachable"}

\* An image_url: empty, an external address, or the public address of a blob.
NoUrl == [storage |-> FALSE, id |-> 0]
ExternalUrl(i) == [storage |-> FALSE, id |-> i]
PublicUrl(objectPath) == [storage |-> TRUE, id |-> objectPath]

\* The object path of a public blob address, 0 for null.
tryExtractStorageObjectPath(imageUrl) == IF imageUrl.storage THEN imageUrl.id ELSE 0

\* The mainskills row of the skill id, and the mainskill_levels rows of that id.
NoSkill == [exists |-> FALSE, description |-> "none", image_url |-> NoUrl]
SkillRow(d, url) == [exists |-> TRUE, description |-> d, image_url |-> url]
LevelRows(n, d) == {[level |-> i, description |-> d] : i \in 1..n}

\* The locals of a call: its input (imageFile, imageUrl, levels, the text
\* fields), resolvedImage, oldDraft.imageUrl, the error being thrown and the
\* rollback text appended to it, and the await it stands at (pc).
IdleCall ==
  [op |-> "none", pc |-> "idle", imageFile |-> FALSE, imageUrl |-> NoUrl,
   levels |-> 0, description |-> "none", uploadedImage |-> 0,
   resolvedImageUrl |-> NoUrl, oldDraftImageUrl |-> NoUrl,
   error |-> "none", rollbackMessage |-> "none"]

\* Ghost: the calls made so far, the rows before the running call, whether its
\* parent insert succeeded, whether replaceLevels threw, how the rollback
\* delete ended, the blobs the call deleted, and for deleteMainSkill the
\* requests that were answered, in order.
NoTrail ==
  [calls |-> 0, before |-> [skill |-> NoSkill, levels |-> {}],
   parentInserted |-> FALSE, levelsFailed |-> FALSE, rollback |-> "none",
   deleted |-> {}, steps |-> <<>>]

\* `return { mainSkillId, levelCount, imageUrl }`
Return(c) == [c EXCEPT !.pc = "returned"]

\* A throw before the `try`: the call rejects at once.
ThrowOutsideTry(c, err) == [c EXCEPT !.pc = "threw", !.error = err]

\* A throw inside the `try`: the catch deletes the image the call uploaded, then rethrows.
ThrowInTry(c, err) ==
  IF c.uploadedImage # 0
    THEN [c EXCEPT !.pc = "deleteUploaded", !.error = err]
    ELSE [c EXCEPT !.pc = "threw", !.error = err]

\* The first write of the workflow after the image is resolved.
FirstWrite(c) == IF c.op = "create" THEN "insert" ELSE "patch"

\* resolveImageUrl: upload the file if there is one, else take the trimmed imageUrl.
resolveImageUrl(c, imageUrl) ==
  IF c.imageFile THEN [c EXCEPT !.pc = "upload"]
  ELSE IF imageUrl = NoUrl THEN ThrowOutsideTry(c, "imageRequired")
  ELSE [c EXCEPT !.resolvedImageUrl = imageUrl, !.pc = FirstWrite(c)]

\* createMainSkillWithLevels(input) / updateMainSkillWithLevels(input) up to the first await.
Call(op, imageFile, imageUrl, levels, description) ==
  /\ UNCHANGED notWrite
  /\ call.pc \in {"idle", "returned", "threw"}
  /\ trail.calls < MaxCalls
  /\ LET c == [IdleCall EXCEPT !.op = op, !.imageFile = imageFile, !.imageUrl = imageUrl,
                               !.levels = levels, !.description = description] IN
     call' = IF op = "create" THEN resolveImageUrl(c, imageUrl)
                              ELSE [c EXCEPT !.pc = "fetchDraft"]
  /\ trail' = [NoTrail EXCEPT !.calls = trail.calls + 1,
                              !.before = [skill |-> backend.skill, levels |-> backend.levels]]
  /\ UNCHANGED backend

\* fetchMainSkillDraft settles: the row is found, or the call throws.
fetchMainSkillDraft(ok) ==
  /\ UNCHANGED notWrite
  /\ call.pc = "fetchDraft"
  /\ call' = IF ok /\ backend.skill.exists
               THEN resolveImageUrl(
                      [call EXCEPT !.oldDraftImageUrl = backend.skill.image_url],
                      IF call.imageUrl # NoUrl THEN call.imageUrl ELSE backend.skill.image_url)
               ELSE ThrowOutsideTry(call, "notFound")
  /\ UNCHANGED <<backend, trail>>

\* uploadMainSkillImage settles; buildImagePath gives every upload a path of its own.
uploadMainSkillImage(o) ==
  /\ UNCHANGED notWrite
  /\ call.pc = "upload"
  /\ LET objectPath == backend.uploads + 1 IN
     /\ backend' = [backend EXCEPT !.uploads = objectPath,
                                   !.blobs = IF o = "ok" THEN @ \cup {objectPath} ELSE @]
     /\ call' = IF o = "ok"
                  THEN [call EXCEPT !.uploadedImage = objectPath,
                                    !.resolvedImageUrl = PublicUrl(objectPath),
                                    !.pc = FirstWrite(call)]
                  ELSE ThrowOutsideTry(call, IF o = "rejected" THEN "uploadFailed" ELSE "network")
  /\ UNCHANGED trail

\* insertMainSkill settles; the id is the primary key of mainskills.
insertMainSkill(o) ==
  /\ UNCHANGED notWrite
  /\ call.pc = "insert"
  /\ o = "ok" => ~backend.skill.exists
  /\ backend' = IF o = "ok"
                  THEN [backend EXCEPT !.skill = SkillRow(call.description, call.resolvedImageUrl)]
                  ELSE backend
  /\ call' = IF o = "ok" THEN [call EXCEPT !.pc = "levelsDelete"]
             ELSE ThrowInTry(call, IF o = "rejected" THEN "createFailed" ELSE "network")
  /\ trail' = [trail EXCEPT !.parentInserted = (o = "ok")]

\* patchMainSkill settles.
patchMainSkill(o) ==
  /\ UNCHANGED notWrite
  /\ call.pc = "patch"
  /\ backend' = IF o = "ok" /\ backend.skill.exists
                  THEN [backend EXCEPT !.skill = SkillRow(call.description, call.resolvedImageUrl)]
                  ELSE backend
  /\ call' = IF o = "ok" THEN [call EXCEPT !.pc = "levelsDelete"]
             ELSE ThrowInTry(call, IF o = "rejected" THEN "patchFailed" ELSE "network")
  /\ UNCHANGED trail

\* replaceLevels returned: create returns; update first deletes the previous
\* image when a file replaced it and both addresses are blobs.
AfterLevels(c) ==
  IF /\ c.op = "update"
     /\ c.imageFile
     /\ tryExtractStorageObjectPath(c.oldDraftImageUrl) # 0
     /\ tryExtractStorageObjectPath(c.resolvedImageUrl) # 0
     /\ tryExtractStorageObjectPath(c.oldDraftImageUrl) #
          tryExtractStorageObjectPath(c.resolvedImageUrl)
    THEN [c EXCEPT !.pc = "deleteOldImage"]
    ELSE Return(c)

\* The error replaceLevels throws when its single candidate failed.
LevelsError(c, o) ==
  IF o = "unreachable" THEN "network"
  ELSE IF c.levels = 0 THEN "noLevelSchema" ELSE "levelsFailed"

\* replaceLevels threw: create goes on to roll the parent row back, update rethrows.
replaceLevelsThrows(o) ==
  /\ call' = IF call.op = "create"
               THEN [call EXCEPT !.pc = "rollback", !.error = LevelsError(call, o)]
               ELSE ThrowInTry(call, LevelsError(call, o))
  /\ trail' = [trail EXCEPT !.levelsFailed = TRUE]

\* replaceLevels, the delete of the skill's level rows settles.
replaceLevelsDelete(o) ==
  /\ UNCHANGED notWrite
  /\ call.pc = "levelsDelete"
  /\ backend' = IF o = "ok" THEN [backend EXCEPT !.levels = {}] ELSE backend
  /\ IF o = "ok"
       THEN /\ call' = IF call.levels = 0 THEN AfterLevels(call)
                                            ELSE [call EXCEPT !.pc = "levelsInsert"]
            /\ UNCHANGED trail
       ELSE replaceLevelsThrows(o)

\* replaceLevels, the insert of the new level rows settles.
replaceLevelsInsert(o) ==
  /\ UNCHANGED notWrite
  /\ call.pc = "levelsInsert"
  /\ backend' = IF o = "ok"
                  THEN [backend EXCEPT !.levels = LevelRows(call.levels, call.description)]
                  ELSE backend
  /\ IF o = "ok"
       THEN /\ call' = AfterLevels(call)
            /\ UNCHANGED trail
       ELSE replaceLevelsThrows(o)

\* A rollback text that claims success whatever deleteById returned.
RollbackMessageAlwaysRolledBack(rollbackOk) == "rolledBack"

\* `rollbackOk ? '已回滚主技能数据。' : '主技能已创建但等级写入失败，且回滚失败，请手动检查。'`
RollbackMessage(rollbackOk) == IF rollbackOk THEN "rolledBack" ELSE "rollbackFailed"

\* createMainSkillWithLevels, the rollback deleteById settles: an answer gives
\* rollbackOk, a rejected fetch propagates out of the catch block.
deleteById(o) ==
  /\ UNCHANGED notWrite
  /\ call.pc = "rollback"
  /\ backend' = IF o = "ok" THEN [backend EXCEPT !.skill = NoSkill] ELSE backend
  /\ call' = IF o = "unreachable"
               THEN ThrowInTry(call, "network")
               ELSE ThrowInTry([call EXCEPT !.rollbackMessage = RollbackMessage(o = "ok")],
                               call.error)
  /\ trail' = [trail EXCEPT !.rollback = o]

\* updateMainSkillWithLevels, deleteMainSkillImage(oldObjectPath).catch(() => {}) settles.
deleteOldImage(o) ==
  /\ UNCHANGED notWrite
  /\ call.pc = "deleteOldImage"
  /\ LET oldObjectPath == tryExtractStorageObjectPath(call.oldDraftImageUrl) IN
     /\ backend' = IF o = "ok" THEN [backend EXCEPT !.blobs = @ \ {oldObjectPath}] ELSE backend
     /\ trail' = IF o = "ok" THEN [trail EXCEPT !.deleted = @ \cup {oldObjectPath}] ELSE trail
  /\ call' = Return(call)

\* The catch of both workflows, deleteMainSkillImage(uploadedImage.objectPath).catch(() => {})
\* settles and the error is rethrown.
deleteUploadedImage(o) ==
  /\ UNCHANGED notWrite
  /\ call.pc = "deleteUploaded"
  /\ backend' = IF o = "ok" THEN [backend EXCEPT !.blobs = @ \ {call.uploadedImage}] ELSE backend
  /\ trail' = IF o = "ok" THEN [trail EXCEPT !.deleted = @ \cup {call.uploadedImage}] ELSE trail
  /\ call' = [call EXCEPT !.pc = "threw"]

\* ---- deleteMainSkill

\* A step of deleteMainSkill has settled.
Stepped(t, step, o) == [t EXCEPT !.steps = Append(@, [step |-> step, outcome |-> o])]

\* deleteMainSkill(session, skillId) up to its first await, the read of the draft.
deleteMainSkill ==
  /\ UNCHANGED notWrite
  /\ call.pc \in {"idle", "returned", "threw"}
  /\ trail.calls < MaxCalls
  /\ call' = [IdleCall EXCEPT !.op = "delete", !.pc = "deleteRead"]
  /\ trail' = [NoTrail EXCEPT !.calls = trail.calls + 1,
                              !.before = [skill |-> backend.skill, levels |-> backend.levels]]
  /\ UNCHANGED backend

\* `try { draft = await fetchMainSkillDraft(...); imageUrl = draft.imageUrl } catch {}`
deleteMainSkillReadSettles(ok) ==
  /\ UNCHANGED notWrite
  /\ call.pc = "deleteRead"
  /\ call' = [call EXCEPT !.pc = "deleteLevels",
                          !.oldDraftImageUrl =
                             IF ok /\ backend.skill.exists THEN backend.skill.image_url ELSE NoUrl]
  /\ trail' = Stepped(trail, "read", IF ok /\ backend.skill.exists THEN "ok" ELSE "rejected")
  /\ UNCHANGED backend

\* `await deleteRows(table, {[foreignKey]: eq.skillId}, session)` of the one
\* level table and foreign key: the answer is not looked at, a rejected fetch
\* is thrown on.
deleteMainSkillLevelsSettle(o) ==
  /\ UNCHANGED notWrite
  /\ call.pc = "deleteLevels"
  /\ backend' = IF o = "ok" THEN [backend EXCEPT !.levels = {}] ELSE backend
  /\ call' = IF o = "unreachable" THEN ThrowOutsideTry(call, "network")
             ELSE [call EXCEPT !.pc = "deleteParent"]
  /\ trail' = Stepped(trail, "levels", o)

\* A parent delete after which the image is cleaned up whatever the answer.
AfterParentDeleteAlwaysCleansUp(c, o) ==
  IF tryExtractStorageObjectPath(c.oldDraftImageUrl) # 0
    THEN [c EXCEPT !.pc = "deleteImage"]
    ELSE Return(c)

\* deleteMainSkill after the delete of the parent row settled.
AfterParentDelete(c, o) ==
  IF o = "unreachable" THEN ThrowOutsideTry(c, "network")
  ELSE IF o = "rejected" THEN ThrowOutsideTry(c, "deleteFailed")
  ELSE IF tryExtractStorageObjectPath(c.oldDraftImageUrl) # 0
    THEN [c EXCEPT !.pc = "deleteImage"]
    ELSE Return(c)

\* `await deleteRows(table, {id: eq.skillId}, session)` of the mainskills table.
deleteMainSkillParentSettles(o) ==
  /\ UNCHANGED notWrite
  /\ call.pc = "deleteParent"
  /\ backend' = IF o = "ok" THEN [backend EXCEPT !.skill = NoSkill] ELSE backend
  /\ call' = AfterParentDelete(call, o)
  /\ trail' = Stepped(trail, "parent", o)

\* `await deleteMainSkillImage(session, objectPath).catch(() => {})`
deleteMainSkillImageSettles(o) ==
  /\ UNCHANGED notWrite
  /\ call.pc = "deleteImage"
  /\ LET objectPath == tryExtractStorageObjectPath(call.oldDraftImageUrl) IN
     /\ backend' = IF o = "ok" THEN [backend EXCEPT !.blobs = @ \ {objectPath}] ELSE backend
     /\ trail' = Stepped(IF o = "ok" THEN [trail EXCEPT !.deleted = @ \cup {objectPath}]
                                     ELSE trail,
                         "image", o)
  /\ call' = Return(call)

\* The backend before a delete: no row of the id, or a row with its levels
\* and an image that is absent, external or a blob of the bucket.
DeleteBackends ==
  {[skill |-> NoSkill, levels |-> {}, blobs |-> {1}, uploads |-> 1]} \cup
  {[skill |-> SkillRow("a", url), levels |-> LevelRows(n, "a"), blobs |-> {1}, uploads |-> 1] :
     url \in {NoUrl, ExternalUrl(1), PublicUrl(1)}, n \in 0..MaxLevels}

InitDelete ==
  /\ backend \in DeleteBackends
  /\ call = IdleCall
  /\ trail = NoTrail

NextDelete ==
  \/ deleteMainSkill
  \/ \E ok \in BOOLEAN : deleteMainSkillReadSettles(ok)
  \/ \E o \in Outcomes : deleteMainSkillLevelsSettle(o)
  \/ \E o \in Outcomes : deleteMainSkillParentSettles(o)
  \/ \E o \in Outcomes : deleteMainSkillImageSettles(o)

\* The backend before the first call: no row of the id, or a row with its levels.
InitialBackends ==
  {[skill |-> NoSkill, levels |-> {}, blobs |-> {}, uploads |-> 0]} \cup
  {[skill |-> SkillRow("a", ExternalUrl(1)), levels |-> LevelRows(n, "a"),
    blobs |-> {}, uploads |-> 0] : n \in 0..MaxLevels}

WriteIdle ==
  /\ backend = [skill |-> NoSkill, levels |-> {}, blobs |-> {}, uploads |-> 0]
  /\ call = IdleCall
  /\ trail = NoTrail

InitWrite ==
  /\ backend \in InitialBackends
  /\ call = IdleCall
  /\ trail = NoTrail

NextWrite ==
  \/ \E op \in {"create", "update"}, imageFile \in BOOLEAN,
        imageUrl \in {NoUrl, ExternalUrl(2)}, levels \in 0..MaxLevels,
        description \in Descriptions :
       Call(op, imageFile, imageUrl, levels, description)
  \/ \E ok \in BOOLEAN : fetchMainSkillDraft(ok)
  \/ \E o \in Outcomes : uploadMainSkillImage(o)
  \/ \E o \in Outcomes : insertMainSkill(o)
  \/ \E o \in Outcomes : patchMainSkill(o)
  \/ \E o \in Outcomes : replaceLevelsDelete(o)
  \/ \E o \in Outcomes : replaceLevelsInsert(o)
  \/ \E o \in Outcomes : deleteById(o)
  \/ \E o \in Outcomes : deleteOldImage(o)
  \/ \E o \in Outcomes : deleteUploadedImage(o)

----------------------------------------------------------------------------
(***************************************************************************)
(* Creature search of the dex page (DexPage: scorePokemon, filteredEntries) *)
(* A string is a sequence of one-character strings.                        *)
(***************************************************************************)
Digits == <<"0", "1", "2", "3", "4", "5", "6", "7", "8", "9">>

\* The characters a query is typed from.
QueryChars == {"0", "2", "5", "a", "A", " "}

IsDigit(c) == \E i \in 1..Len(Digits) : Digits[i] = c
DigitValue(c) == (CHOOSE i \in 1..Len(Digits) : Digits[i] = c) - 1
IsWhitespace(c) == c = " "

\* String.prototype.toLowerCase over the letters A-Z.
UpperCase ==
  <<"A", "B", "C", "D", "E", "F", "G", "H", "I", "J", "K", "L", "M", "N", "O", "P", "Q", "R", "S", "T", "U", "V", "W", "X", "Y", "Z">>
LowerCase ==
  <<"a", "b", "c", "d", "e", "f", "g", "h", "i", "j", "k", "l", "m", "n", "o", "p", "q", "r", "s", "t", "u", "v", "w", "x", "y", "z">>
toLowerCaseChar(c) ==
  IF \E i \in 1..Len(UpperCase) : UpperCase[i] = c
    THEN LowerCase[CHOOSE i \in 1..Len(UpperCase) : UpperCase[i] = c]
    ELSE c
toLowerCase(s) == [i \in 1..Len(s) |-> toLowerCaseChar(s[i])]

\* String.prototype.trim
RECURSIVE trimStart(_)
trimStart(s) == IF s # <<>> /\ IsWhitespace(Head(s)) THEN trimStart(Tail(s)) ELSE s

RECURSIVE trimEnd(_)
trimEnd(s) ==
  IF s # <<>> /\ IsWhitespace(s[Len(s)]) THEN trimEnd(SubSeq(s, 1, Len(s) - 1)) ELSE s

trim(s) == trimEnd(trimStart(s))

\* `value.trim().toLowerCase()`
normalizeText(value) == toLowerCase(trim(value))

\* `.replace(/\s+/g, '')`
removeWhitespace(s) == SelectSeq(s, LAMBDA c : ~IsWhitespace(c))

\* `/^\d+$/.test(q)`
isNumeric(s) == Len(s) > 0 /\ \A i \in 1..Len(s) : IsDigit(s[i])

\* Number.parseInt(q, 10) of a string of digits
RECURSIVE parseInt(_)
parseInt(s) ==
  IF s = <<>> THEN 0
  ELSE 10 * parseInt(SubSeq(s, 1, Len(s) - 1)) + DigitValue(s[Len(s)])

\* String(n) of a non-negative integer
RECURSIVE NumberToString(_)
NumberToString(n) ==
  IF n < 10 THEN <<Digits[n + 1]>>
  ELSE NumberToString(n \div 10) \o <<Digits[(n % 10) + 1]>>

padStart(s, targetLength, c) ==
  IF Len(s) >= targetLength THEN s
  ELSE [i \in 1..(targetLength - Len(s)) |-> c] \o s

startsWith(s, p) == Len(p) <= Len(s) /\ SubSeq(s, 1, Len(p)) = p
endsWith(s, p) == Len(p) <= Len(s) /\ SubSeq(s, Len(s) - Len(p) + 1, Len(s)) = p
includes(s, p) == \E i \in 0..(Len(s) - Len(p)) : SubSeq(s, i + 1, i + Len(p)) = p

Max(a, b) == IF a >= b THEN a ELSE b

\* Array.prototype.join
RECURSIVE join(_, _)
join(parts, sep) ==
  IF parts = <<>> THEN <<>>
  ELSE IF Len(parts) = 1 THEN parts[1]
  ELSE parts[1] \o sep \o join(Tail(parts), sep)

\* An id bonus whose leading-zero branch tests the suffix before the exact match.
NumericIdScoreSuffixFirst(dexNo, q) ==
  LET numericQuery == parseInt(q)
      hasLeadingZeroNumericQuery == Len(q) > 1 /\ startsWith(q, <<"0">>)
      idText == NumberToString(dexNo)
      idPadded == padStart(idText, Max(3, Len(q)), "0")
      canonicalNumeric == NumberToString(numericQuery)
  IN IF hasLeadingZeroNumericQuery THEN
       IF endsWith(idText, q) \/ endsWith(idPadded, q) THEN 180
       ELSE IF idPadded = q \/ idText = q THEN 260
       ELSE IF includes(idText, q) \/ includes(idPadded, q) THEN 95
       ELSE 0
     ELSE
       (IF dexNo = numericQuery THEN 260 ELSE 0) +
       (IF idPadded = q THEN 220
        ELSE IF idText = canonicalNumeric THEN 200
        ELSE IF startsWith(idPadded, q) \/ startsWith(idText, canonicalNumeric) THEN 90
        ELSE IF includes(idText, canonicalNumeric) THEN 25
        ELSE 0)

\* The bonus of the id for a numeric query.
NumericIdScore(dexNo, q) ==
  LET numericQuery == parseInt(q)
      hasLeadingZeroNumericQuery == Len(q) > 1 /\ startsWith(q, <<"0">>)
      idText == NumberToString(dexNo)
      idPadded == padStart(idText, Max(3, Len(q)), "0")
      canonicalNumeric == NumberToString(numericQuery)
  IN IF hasLeadingZeroNumericQuery THEN
       IF idPadded = q \/ idText = q THEN 260
       ELSE IF endsWith(idText, q) \/ endsWith(idPadded, q) THEN 180
       ELSE IF includes(idText, q) \/ includes(idPadded, q) THEN 95
       ELSE 0
     ELSE
       (IF dexNo = numericQuery THEN 260 ELSE 0) +
       (IF idPadded = q THEN 220
        ELSE IF idText = canonicalNumeric THEN 200
        ELSE IF startsWith(idPadded, q) \/ startsWith(idText, canonicalNumeric) THEN 90
        ELSE IF includes(idText, canonicalNumeric) THEN 25
        ELSE 0)

\* The bonus of the id for a query that is not a number.
TextIdScore(dexNo, q) ==
  LET idText == NumberToString(dexNo)
  IN IF idText = q THEN 160
     ELSE IF startsWith(idText, q) THEN 100
     ELSE IF includes(idText, q) THEN 60
     ELSE 0

\* A score whose compacted pass counts a field only when the spaced comparison
\* of that field counted nothing.
scorePokemonCompactOnlyOnMiss(pokemon, query) ==
  LET q == normalizeText(query)
      compactQuery == removeWhitespace(q)
      name == normalizeText(pokemon.name)
      type == normalizeText(pokemon.type)
      talent == normalizeText(pokemon.talent)
      mainSkillName == normalizeText(pokemon.mainSkill)
      ingredientNames ==
        join([i \in 1..Len(pokemon.ingredients) |-> normalizeText(pokemon.ingredients[i])],
             <<" ">>)
  IN IF q = <<>> THEN 0
     ELSE
       (IF isNumeric(q) THEN NumericIdScore(pokemon.dexNo, q)
                        ELSE TextIdScore(pokemon.dexNo, q)) +
       (IF name = q THEN 150
        ELSE IF startsWith(name, q) THEN 110
        ELSE IF includes(name, q) THEN 80
        ELSE IF includes(removeWhitespace(name), compactQuery) THEN 25
        ELSE 0) +
       (IF includes(mainSkillName, q) THEN 70
        ELSE IF includes(removeWhitespace(mainSkillName), compactQuery) THEN 15
        ELSE 0) +
       (IF includes(ingredientNames, q) THEN 55
        ELSE IF includes(removeWhitespace(ingredientNames), compactQuery) THEN 15
        ELSE 0) +
       (IF includes(type, q) THEN 30 ELSE 0) +
       (IF includes(talent, q) THEN 20 ELSE 0)

scorePokemon(pokemon, query) ==
  LET q == normalizeText(query)
      compactQuery == removeWhitespace(q)
      name == normalizeText(pokemon.name)
      type == normalizeText(pokemon.type)
      talent == normalizeText(pokemon.talent)
      mainSkillName == normalizeText(pokemon.mainSkill)
      ingredientNames ==
        join([i \in 1..Len(pokemon.ingredients) |-> normalizeText(pokemon.ingredients[i])],
             <<" ">>)
  IN IF q = <<>> THEN 0
     ELSE
       (IF isNumeric(q) THEN NumericIdScore(pokemon.dexNo, q)
                        ELSE TextIdScore(pokemon.dexNo, q)) +
       (IF name = q THEN 150
        ELSE IF startsWith(name, q) THEN 110
        ELSE IF includes(name, q) THEN 80
        ELSE 0) +
       (IF includes(mainSkillName, q) THEN 70 ELSE 0) +
       (IF includes(ingredientNames, q) THEN 55 ELSE 0) +
       (IF includes(type, q) THEN 30 ELSE 0) +
       (IF includes(talent, q) THEN 20 ELSE 0) +
       (IF includes(removeWhitespace(name), compactQuery) THEN 25 ELSE 0) +
       (IF includes(removeWhitespace(mainSkillName), compactQuery) THEN 15 ELSE 0) +
       (IF includes(removeWhitespace(ingredientNames), compactQuery) THEN 15 ELSE 0)

\* `(a, b) => a.dexNo - b.dexNo`
compareDexNo(a, b) == a.dexNo - b.dexNo

\* A comparator that orders by score alone.
compareScoreOnly(a, b) == b.score - a.score

\* `(a, b) => b.score !== a.score ? b.score - a.score : a.pokemon.dexNo - b.pokemon.dexNo`
compareScored(a, b) ==
  IF b.score # a.score THEN b.score - a.score ELSE a.pokemon.dexNo - b.pokemon.dexNo

Compare(scored, a, b) == IF scored THEN compareScored(a, b) ELSE compareDexNo(a, b)

\* Array.prototype.sort, which is stable: an element goes after the elements
\* the comparator does not put behind it.
RECURSIVE insertSorted(_, _, _)
insertSorted(scored, sorted, x) ==
  IF sorted = <<>> THEN <<x>>
  ELSE IF Compare(scored, Head(sorted), x) <= 0
    THEN <<Head(sorted)>> \o insertSorted(scored, Tail(sorted), x)
    ELSE <<x>> \o sorted

RECURSIVE sort(_, _)
sort(scored, s) ==
  IF s = <<>> THEN <<>>
  ELSE insertSorted(scored, sort(scored, SubSeq(s, 1, Len(s) - 1)), s[Len(s)])

\* The useMemo of filteredEntries.
FilteredEntries(entries, rawQuery) ==
  LET query == trim(rawQuery)
      items == [i \in 1..Len(entries) |->
                  [pokemon |-> entries[i], score |-> scorePokemon(entries[i], query)]]
      kept == sort(TRUE, SelectSeq(items, LAMBDA item : item.score > 0))
  IN IF query = <<>> THEN sort(FALSE, entries)
     ELSE [i \in 1..Len(kept) |-> kept[i].pokemon]

\* The creatures a backend answer is drawn from.
Pokedex ==
  << [dexNo |-> 25, name |-> <<"A", " ", "a">>, mainSkill |-> <<"a", "a">>,
      ingredients |-> << <<"a">> >>, type |-> <<"a">>, talent |-> <<>>],
     [dexNo |-> 5, name |-> <<"a", "a">>, mainSkill |-> <<>>,
      ingredients |-> << <<"a", " ", "a">>, <<"A">> >>, type |-> <<"a", "a">>,
      talent |-> <<"a">>],
     [dexNo |-> 2, name |-> <<"5">>, mainSkill |-> <<"5", " ", "a">>,
      ingredients |-> << <<"a", "5">> >>, type |-> <<"a">>, talent |-> <<"a">>],
     [dexNo |-> 52, name |-> <<"a", "a">>, mainSkill |-> <<>>,
      ingredients |-> << <<"a", " ", "a">>, <<"A">> >>, type |-> <<"a", "a">>,
      talent |-> <<"a">>] >>

\* The lists fetchDexEntries can deliver: distinct creatures in any order.
Collections ==
  {s \in UNION {[1..n -> 1..Len(Pokedex)] : n \in 0..MaxEntries} :
     \A i, j \in DOMAIN s : i # j => s[i] # s[j]}

EntriesOf(s) == [i \in DOMAIN s |-> Pokedex[s[i]]]

\* loadDexEntries settles with source 'supabase'.
loadDexEntries(s) ==
  /\ UNCHANGED notSearch
  /\ loadState = "loading"
  /\ allEntries' = EntriesOf(s)
  /\ loadState' = "ready"
  /\ filteredEntries' = FilteredEntries(EntriesOf(s), searchQuery)
  /\ UNCHANGED searchQuery

\* setSearchQuery(value) with the rerender that recomputes filteredEntries.
setSearchQuery(value) ==
  /\ UNCHANGED notSearch
  /\ value # searchQuery
  /\ searchQuery' = value
  /\ filteredEntries' = FilteredEntries(allEntries, value)
  /\ UNCHANGED <<allEntries, loadState>>

\* The edits of the search box: a character typed, the last one deleted, the box cleared.
TypeChar(c) == Len(searchQuery) < MaxQueryLen /\ setSearchQuery(Append(searchQuery, c))
Backspace == searchQuery # <<>> /\ setSearchQuery(SubSeq(searchQuery, 1, Len(searchQuery) - 1))
ClearQuery == setSearchQuery(<<>>)

SearchIdle ==
  /\ allEntries = <<>>
  /\ loadState = "loading"
  /\ searchQuery = <<>>
  /\ filteredEntries = <<>>

NextSearch ==
  \/ \E s \in Collections : loadDexEntries(s)
  \/ \E c \in QueryChars : TypeChar(c)
  \/ Backspace
  \/ ClearQuery

----------------------------------------------------------------------------
(***************************************************************************)
(* News page (NewsPage.tsx: loadNews, handleForceRefresh) over the news    *)
(* service's cache.  A mounted page is an instance with its own            *)
(* isRevalidatingRef and isForceRefreshing; the loads an instance started  *)
(* go on after it was unmounted.                                           *)
(***************************************************************************)
\* A loadNews call awaiting fetchPokemonNews: its instance and its params.
NewsLoad(i, force, background) == [instance |-> i, force |-> force, background |-> background]

\* Ghost: what the step just taken did: the loadNews call it settled, if any (its
\* background param, where the data came from, the instance's guard before, and
\* whether it scheduled a revalidation), and the network call it issued, if
\* any, with whether a background revalidation was in flight then.
NoLoad ==
  [settled |-> FALSE, background |-> FALSE, origin |-> "none", calls |-> 0,
   guard |-> FALSE, scheduled |-> FALSE, issued |-> "none", duringRevalidation |-> FALSE]

RevalidationInFlight(loads) == \E l \in loads : l.background

\* A revalidation condition that looks at the persisted tier only.
ShouldRevalidatePersistedOnly(result, background, i) ==
  /\ result.source = "supabase"
  /\ result.origin = "session"
  /\ ~background
  /\ i \notin isRevalidatingRef

\* `result.source === 'supabase'` and
\* `result.fromCache && !background && !isRevalidatingRef.current`
ShouldRevalidate(result, background, i) ==
  /\ result.source = "supabase"
  /\ result.fromCache
  /\ ~background
  /\ i \notin isRevalidatingRef

\* loadNews after the await: the revalidation it schedules goes to the network
\* at once (force skips both tiers); a background load ends with the finally that
\* clears the guard; handleForceRefresh ends with setIsForceRefreshing(false).
LoadNewsSettles(load, result, others) ==
  LET i == load.instance
      scheduled == ShouldRevalidate(result, load.background, i)
  IN /\ newsLoads' = IF scheduled THEN others \cup {NewsLoad(i, TRUE, TRUE)} ELSE others
     /\ isRevalidatingRef' =
          IF scheduled THEN isRevalidatingRef \cup {i}
          ELSE IF load.background THEN isRevalidatingRef \ {i}
          ELSE isRevalidatingRef
     /\ isForceRefreshing' =
          IF load.force /\ ~load.background THEN isForceRefreshing \ {i}
          ELSE isForceRefreshing
     /\ lastLoad' =
          [settled |-> TRUE, background |-> load.background, origin |-> result.origin,
           calls |-> result.calls, guard |-> i \in isRevalidatingRef,
           scheduled |-> scheduled,
           issued |-> IF scheduled THEN "revalidation" ELSE "none",
           duringRevalidation |-> scheduled /\ RevalidationInFlight(others)]

\* The page is mounted: the effect runs loadNews(), which is answered by a tier
\* or goes to the network.
Mount ==
  /\ instance = 0
  /\ mounts < MaxMounts
  /\ Cardinality(newsLoads) < MaxNewsLoads
  /\ instance' = mounts + 1
  /\ mounts' = mounts + 1
  /\ IF IsCacheHit(FALSE) THEN
       /\ AnswerFromTier(FALSE)
       /\ LoadNewsSettles(NewsLoad(mounts + 1, FALSE, FALSE), lastResult', newsLoads)
     ELSE
       /\ sessionStore' = SessionAfterRead(kind, now)
       /\ newsLoads' = newsLoads \cup {NewsLoad(mounts + 1, FALSE, FALSE)}
       /\ lastResult' = NoResult
       /\ lastLoad' = [NoLoad EXCEPT !.issued = "load",
                                     !.duringRevalidation = RevalidationInFlight(newsLoads)]
       /\ UNCHANGED <<memoryCache, isRevalidatingRef, isForceRefreshing>>
  /\ UNCHANGED <<kind, now, ticks, assetMapsPromise, inflight, invalidated, mutated>>
  /\ UNCHANGED notNews

\* The page is unmounted; the cleanup only dismisses toasts.
Unmount ==
  /\ instance # 0
  /\ instance' = 0
  /\ lastResult' = NoResult
  /\ lastLoad' = NoLoad
  /\ UNCHANGED <<mounts, isRevalidatingRef, isForceRefreshing, newsLoads>>
  /\ UNCHANGED <<kind, now, ticks, memoryCache, sessionStore, assetMapsPromise,
                 inflight, invalidated, mutated>>
  /\ UNCHANGED notNews

\* handleForceRefresh: loadNews({ force: true }) unless a forced refresh is running.
handleForceRefresh ==
  /\ instance # 0
  /\ instance \notin isForceRefreshing
  /\ Cardinality(newsLoads) < MaxNewsLoads
  /\ isForceRefreshing' = isForceRefreshing \cup {instance}
  /\ newsLoads' = newsLoads \cup {NewsLoad(instance, TRUE, FALSE)}
  /\ lastResult' = NoResult
  /\ lastLoad' = [NoLoad EXCEPT !.issued = "forceRefresh",
                                !.duringRevalidation = RevalidationInFlight(newsLoads)]
  /\ UNCHANGED <<instance, mounts, isRevalidatingRef>>
  /\ UNCHANGED <<kind, now, ticks, memoryCache, sessionStore, assetMapsPromise,
                 inflight, invalidated, mutated>>
  /\ UNCHANGED notNews

\* The pokemon_news request of a load settles and loadNews continues.
NewsRespond(load, ok, rows, persistOk) ==
  /\ load \in newsLoads
  /\ LET req == [force |-> load.force, idx |-> 1, calls |-> 1, nowAtCall |-> 0,
                 queried |-> <<tableCandidates(kind)[1]>>, answers |-> <<>>,
                 assets |-> "null"] IN
       IF ok THEN RespondOk(req, rows, persistOk) ELSE RespondError(req)
  /\ LoadNewsSettles(load, lastResult', newsLoads \ {load})
  /\ UNCHANGED <<instance, mounts>>
  /\ UNCHANGED <<kind, now, ticks, assetMapsPromise, invalidated, mutated>>
  /\ UNCHANGED notNews

\* The browser reloads the page: module state and pending loads are gone,
\* sessionStorage stays.
NewsReload ==
  /\ memoryCache' = [k \in CacheKinds |-> NoEntry]
  /\ instance' = 0
  /\ isRevalidatingRef' = {}
  /\ isForceRefreshing' = {}
  /\ newsLoads' = {}
  /\ lastResult' = NoResult
  /\ lastLoad' = NoLoad
  /\ UNCHANGED <<mounts, kind, now, ticks, sessionStore, assetMapsPromise, inflight, invalidated, mutated>>
  /\ UNCHANGED notNews

\* The clock advances.
NewsTick(d) ==
  /\ ticks < MaxNewsTicks
  /\ now' = now + d
  /\ ticks' = ticks + 1
  /\ lastResult' = NoResult
  /\ lastLoad' = NoLoad
  /\ UNCHANGED <<instance, mounts, isRevalidatingRef, isForceRefreshing, newsLoads>>
  /\ UNCHANGED <<kind, memoryCache, sessionStore, assetMapsPromise, inflight, invalidated, mutated>>
  /\ UNCHANGED notNews

\* What the pokemon_news read can deliver: fetchPokemonNews only tells an empty
\* list from a non-empty one.
NewsRowChoices == {0, MaxRows}

NewsIdle ==
  /\ instance = 0
  /\ mounts = 0
  /\ isRevalidatingRef = {}
  /\ isForceRefreshing = {}
  /\ newsLoads = {}
  /\ lastLoad = NoLoad

NextNews ==
  \/ Mount
  \/ Unmount
  \/ handleForceRefresh
  \/ \E load \in newsLoads, rows \in NewsRowChoices, persistOk \in PersistChoices :
       NewsRespond(load, TRUE, rows, persistOk)
  \/ \E load \in newsLoads : NewsRespond(load, FALSE, 0, TRUE)
  \/ NewsReload
  \/ \E d \in TickSteps : NewsTick(d)

----------------------------------------------------------------------------
(***************************************************************************)
(* Main-skill form (MainSkillCreatePage in create mode): the id input, the *)
(* debounced detection of an existing skill and the submission.  A step is *)
(* one event handler or promise continuation together with the render and  *)
(* the run of the debounce effect that follow it.  The session is present  *)
(* and no local image file is chosen.                                      *)
(***************************************************************************)
\* The texts an edit can leave in the id input: empty, zero, an id, the same
\* id written otherwise, a second id, and texts with a letter in them.
RawIds ==
  {<<>>, <<"0">>, <<"1">>, <<"0", "1">>, <<"1", "1">>, <<"1", "a">>, <<"a">>}

\* `event.target.value.replace(/[^\d]/g, '')`
replaceNonDigits(value) == SelectSeq(value, IsDigit)

\* Number(rawId) of a string of digits; Number('') is 0.
RECURSIVE Number(_)
Number(s) ==
  IF s = <<>> THEN 0
  ELSE 10 * Number(SubSeq(s, 1, Len(s) - 1)) + DigitValue(s[Len(s)])

\* null of resolvedExistingSkillId and lastCheckedSkillId; a skill id is positive.
NoSkillId == 0

\* The content of one form field: empty, typed by the user, or taken from
\* the draft of a skill.
EmptyField == [kind |-> "empty", id |-> NoSkillId]
TypedField == [kind |-> "typed", id |-> NoSkillId]
DraftField(id) == [kind |-> "draft", id |-> id]

\* The form after resetToNewDraft(), which is also its state at mount.
resetToNewDraft == [name |-> EmptyField, imageUrl |-> EmptyField]

\* The form after applyDraftToForm(draft) with the draft of skill `id`.
applyDraftToForm(id) == [name |-> DraftField(id), imageUrl |-> DraftField(id)]

\* The form after clearLocalImage().
clearLocalImage(fields) == [fields EXCEPT !.imageUrl = EmptyField]

NoTimer == [candidate |-> NoSkillId, requestSeq |-> 0]
\* A submission: where run() stands, the id submitted, the mode, and (ghost)
\* what the mode rests on: the detection made while typing ("detected") or
\* the answer of the table to the read of the submission.
NoSubmission == [pc |-> "none", skillId |-> NoSkillId, shouldUpdate |-> FALSE,
                 established |-> "none"]
LookupOutcomes == {"found", "notFound", "failed"}

NoResponse ==
  [settled |-> FALSE, id |-> NoSkillId, requestSeq |-> 0, outcome |-> "none",
   latestIssued |-> 0, inputId |-> NoSkillId, changed |-> FALSE,
   formBefore |-> resetToNewDraft, stale |-> FALSE]

\* The React state of the form.
FormState ==
  <<form, manualSkillId, resolvedExistingSkillId, lastCheckedSkillId,
    isResolvingSkillId, isSubmitting>>

\* The dependencies of the debounce effect that can change.
EffectDeps(m, resolving, submitting, lastChecked, resolved) ==
  <<m, resolving, submitting, lastChecked, resolved>>

\* `requestSeq !== resolveRequestSeqRef.current` decides that a response is stale.
IsStaleAlwaysFalse(requestSeq) == FALSE
IsStale(requestSeq) == requestSeq # resolveRequestSeqRef

\* The render after a handler left the state (m, resolving, ...) and the
\* run of the debounce effect when one of its dependencies changed: its
\* cleanup clears the pending timer, then it returns while the form is
\* busy, blanks the form for an empty id, returns for an id that is not a
\* positive number or was already resolved or checked, and otherwise issues
\* the next request number and arms the timer.
Render(m, resolving, submitting, lastChecked, resolved, fields, seq, timer) ==
  LET rerun == EffectDeps(m, resolving, submitting, lastChecked, resolved)
                 # EffectDeps(manualSkillId, isResolvingSkillId, isSubmitting,
                              lastCheckedSkillId, resolvedExistingSkillId)
      runs == rerun /\ ~submitting /\ ~resolving
      rawId == trim(m)
      candidate == Number(rawId)
      blank == runs /\ rawId = <<>>
      issue == /\ runs
               /\ rawId # <<>>
               /\ candidate > 0
               /\ resolved # candidate
               /\ lastChecked # candidate
      requestSeq == seq + 1
  IN /\ manualSkillId' = m
     /\ isResolvingSkillId' = resolving
     /\ isSubmitting' = submitting
     /\ lastCheckedSkillId' = lastChecked
     /\ resolvedExistingSkillId' = IF blank THEN NoSkillId ELSE resolved
     /\ form' = IF blank THEN resetToNewDraft ELSE fields
     /\ resolveRequestSeqRef' = IF issue THEN requestSeq ELSE seq
     /\ debounceTimer' = IF issue THEN [candidate |-> candidate, requestSeq |-> requestSeq]
                         ELSE IF rerun THEN NoTimer
                         ELSE timer
     /\ lastIssued' = IF issue THEN requestSeq ELSE lastIssued
     /\ resolveRequestSeqRef' <= MaxSeq

\* onChange of the id input: the text without its non-digits becomes the id,
\* the request number is advanced and the detection state is cleared.
IdChange(raw) ==
  /\ UNCHANGED notForm
  /\ formMounted
  /\ ~isSubmitting
  /\ raw # manualSkillId
  /\ Render(replaceNonDigits(raw), FALSE, isSubmitting, NoSkillId, NoSkillId, form,
            resolveRequestSeqRef + 1, debounceTimer)
  /\ lastResponse' = NoResponse
  /\ UNCHANGED <<formMounted, lookups, submission>>

\* onChange of the name input.
setName ==
  /\ UNCHANGED notForm
  /\ formMounted
  /\ ~isSubmitting
  /\ form.name # TypedField
  /\ Render(manualSkillId, isResolvingSkillId, isSubmitting, lastCheckedSkillId,
            resolvedExistingSkillId, [form EXCEPT !.name = TypedField],
            resolveRequestSeqRef, debounceTimer)
  /\ lastResponse' = NoResponse
  /\ UNCHANGED <<formMounted, lookups, submission>>

\* onChange of the image_url input.
setImageUrl ==
  /\ UNCHANGED notForm
  /\ formMounted
  /\ ~isSubmitting
  /\ form.imageUrl # TypedField
  /\ Render(manualSkillId, isResolvingSkillId, isSubmitting, lastCheckedSkillId,
            resolvedExistingSkillId, [form EXCEPT !.imageUrl = TypedField],
            resolveRequestSeqRef, debounceTimer)
  /\ lastResponse' = NoResponse
  /\ UNCHANGED <<formMounted, lookups, submission>>

\* The debounce timer fires: resolveExistingSkillById(candidate, requestSeq)
\* runs up to its await.
resolveExistingSkillById ==
  /\ UNCHANGED notForm
  /\ formMounted
  /\ debounceTimer # NoTimer
  /\ debounceTimer.candidate > 0
  /\ lookups' = lookups \cup {[id |-> debounceTimer.candidate,
                               requestSeq |-> debounceTimer.requestSeq]}
  /\ Render(manualSkillId, TRUE, isSubmitting, lastCheckedSkillId,
            resolvedExistingSkillId, form, resolveRequestSeqRef, NoTimer)
  /\ lastResponse' = NoResponse
  /\ UNCHANGED <<formMounted, submission>>

\* The state resolveExistingSkillById leaves after its await when the
\* response is not stale.
AppliedResponse(r, outcome) ==
  IF outcome = "found"
    THEN Render(manualSkillId, FALSE, isSubmitting, r.id, r.id, applyDraftToForm(r.id),
                resolveRequestSeqRef, debounceTimer)
  ELSE IF outcome = "notFound"
    THEN Render(manualSkillId, FALSE, isSubmitting, r.id, NoSkillId, resetToNewDraft,
                resolveRequestSeqRef, debounceTimer)
  ELSE Render(manualSkillId, FALSE, isSubmitting, lastCheckedSkillId,
              resolvedExistingSkillId, form, resolveRequestSeqRef, debounceTimer)

\* fetchMainSkillDraft of a detection settles: the rest of
\* resolveExistingSkillById (try, catch and finally).
resolveExistingSkillByIdSettles(r, outcome) ==
  /\ UNCHANGED notForm
  /\ r \in lookups
  /\ lookups' = lookups \ {r}
  /\ IF IsStale(r.requestSeq)
       THEN UNCHANGED <<form, manualSkillId, resolvedExistingSkillId, lastCheckedSkillId,
                        isResolvingSkillId, isSubmitting, resolveRequestSeqRef,
                        debounceTimer, lastIssued>>
       ELSE AppliedResponse(r, outcome)
  /\ lastResponse' = [settled |-> TRUE, id |-> r.id, requestSeq |-> r.requestSeq,
                      outcome |-> outcome, latestIssued |-> lastIssued,
                      inputId |-> Number(trim(manualSkillId)),
                      changed |-> FormState' # FormState,
                      formBefore |-> form, stale |-> IsStale(r.requestSeq)]
  /\ UNCHANGED <<formMounted, submission>>

\* What the main-skill table answers to the read of fetchMainSkillDraft: a row,
\* no row, an error, or a row without a valid id.
DraftReadAnswers == {"row", "noRow", "error", "rowWithoutId"}

\* fetchMainSkillDraft as its caller sees it: the error of the table read is
\* caught in the loop over the candidates and, with no row found, the message
\* `未找到主技能 ID ...` is thrown with the collected errors appended; a row
\* without a valid id throws another message.
DraftReadOutcome(answer) ==
  CASE answer = "row" -> "found"
    [] answer = "noRow" -> "notFound"
    [] answer = "error" -> "notFound"
    [] answer = "rowWithoutId" -> "failed"

\* submitDraft up to the first await of run(): the fields are validated,
\* isSubmitting is set and the mode is taken from resolvedExistingSkillId.
submitDraft ==
  /\ UNCHANGED notForm
  /\ formMounted
  /\ ~isSubmitting
  /\ Number(trim(manualSkillId)) > 0
  /\ form.name # EmptyField
  /\ form.imageUrl # EmptyField
  /\ LET skillIdValue == Number(trim(manualSkillId))
         shouldUpdate == resolvedExistingSkillId = skillIdValue
     IN submission' = [pc |-> IF shouldUpdate THEN "write" ELSE "check",
                       skillId |-> skillIdValue, shouldUpdate |-> shouldUpdate,
                       established |-> IF shouldUpdate THEN "detected" ELSE "none"]
  /\ Render(manualSkillId, isResolvingSkillId, TRUE, lastCheckedSkillId,
            resolvedExistingSkillId, form, resolveRequestSeqRef, debounceTimer)
  /\ lastResponse' = NoResponse
  /\ UNCHANGED <<formMounted, lookups>>

\* The setters of an unmounted component do nothing.
UnmountedSettles ==
  UNCHANGED <<form, manualSkillId, resolvedExistingSkillId, lastCheckedSkillId,
              isResolvingSkillId, isSubmitting, resolveRequestSeqRef, debounceTimer,
              lastIssued>>

\* fetchMainSkillDraft of the submission settles: an existing skill fills
\* the form and turns the submission into an update, a missing one leaves
\* it a create, any other error ends the submission.
submitDraftLookupSettles(answer) ==
  /\ UNCHANGED notForm
  /\ submission.pc = "check"
  /\ LET outcome == DraftReadOutcome(answer)
     IN /\ submission' =
             IF outcome = "found"
               THEN [submission EXCEPT !.pc = "write", !.shouldUpdate = TRUE,
                                       !.established = answer]
             ELSE IF outcome = "notFound"
               THEN [submission EXCEPT !.pc = "write", !.established = answer]
             ELSE NoSubmission
        /\ IF ~formMounted THEN UnmountedSettles
           ELSE IF outcome = "found"
             THEN Render(manualSkillId, isResolvingSkillId, isSubmitting, lastCheckedSkillId,
                         submission.skillId, applyDraftToForm(submission.skillId),
                         resolveRequestSeqRef, debounceTimer)
           ELSE IF outcome = "notFound"
             THEN Render(manualSkillId, isResolvingSkillId, isSubmitting, lastCheckedSkillId,
                         resolvedExistingSkillId, form, resolveRequestSeqRef, debounceTimer)
           ELSE Render(manualSkillId, isResolvingSkillId, FALSE, lastCheckedSkillId,
                       resolvedExistingSkillId, form, resolveRequestSeqRef, debounceTimer)
  /\ lastResponse' = NoResponse
  /\ UNCHANGED <<formMounted, lookups>>

\* updateMainSkillWithLevels / createMainSkillWithLevels of the submission
\* settles.  A success clears the image fields and, for an update, navigates
\* away, which unmounts the form; the catalog cache it invalidates is empty
\* here.  isSubmitting is cleared in every case.
submitDraftSettles(ok) ==
  /\ UNCHANGED notForm
  /\ submission.pc = "write"
  /\ submission' = NoSubmission
  /\ LET fields == IF ok THEN clearLocalImage(form) ELSE form
         leaves == ok /\ submission.shouldUpdate
     IN IF ~formMounted
          THEN UnmountedSettles /\ UNCHANGED formMounted
        ELSE IF leaves
          THEN /\ formMounted' = FALSE
               /\ form' = fields
               /\ isSubmitting' = FALSE
               /\ resolveRequestSeqRef' = resolveRequestSeqRef + 1
               /\ resolveRequestSeqRef' <= MaxSeq
               /\ debounceTimer' = NoTimer
               /\ UNCHANGED <<manualSkillId, resolvedExistingSkillId, lastCheckedSkillId,
                              isResolvingSkillId, lastIssued>>
        ELSE /\ Render(manualSkillId, isResolvingSkillId, FALSE, lastCheckedSkillId,
                       resolvedExistingSkillId, fields, resolveRequestSeqRef,
                       debounceTimer)
             /\ UNCHANGED formMounted
  /\ lastResponse' = NoResponse
  /\ UNCHANGED lookups

\* The form is unmounted: the cleanup clears the pending timer and advances
\* the request number.
FormUnmount ==
  /\ UNCHANGED notForm
  /\ formMounted
  /\ formMounted' = FALSE
  /\ debounceTimer' = NoTimer
  /\ resolveRequestSeqRef' = resolveRequestSeqRef + 1
  /\ resolveRequestSeqRef' <= MaxSeq
  /\ lastResponse' = NoResponse
  /\ UNCHANGED <<form, manualSkillId, resolvedExistingSkillId, lastCheckedSkillId,
                 isResolvingSkillId, isSubmitting, lastIssued, lookups, submission>>

\* The form as it is mounted.
FormIdle ==
  /\ formMounted = TRUE
  /\ manualSkillId = <<>>
  /\ resolveRequestSeqRef = 0
  /\ debounceTimer = NoTimer
  /\ lookups = {}
  /\ isResolvingSkillId = FALSE
  /\ resolvedExistingSkillId = NoSkillId
  /\ lastCheckedSkillId = NoSkillId
  /\ form = resetToNewDraft
  /\ isSubmitting = FALSE
  /\ submission = NoSubmission
  /\ lastIssued = 0
  /\ lastResponse = NoResponse

NextForm ==
  \/ \E raw \in RawIds : IdChange(raw)
  \/ setName
  \/ setImageUrl
  \/ resolveExistingSkillById
  \/ \E r \in lookups, outcome \in LookupOutcomes : resolveExistingSkillByIdSettles(r, outcome)
  \/ submitDraft
  \/ \E answer \in DraftReadAnswers : submitDraftLookupSettles(answer)
  \/ \E ok \in BOOLEAN : submitDraftSettles(ok)
  \/ FormUnmount

----------------------------------------------------------------------------
(***************************************************************************)
(* Data-loading views: the mount effects of DexPage, NewsPage,             *)
(* AssetDexPage and UnifiedDexEditPage and the main-skill level modal of   *)
(* AssetDexPage.  The state of a page belongs to its mounted instance: a   *)
(* setter of an unmounted instance does nothing.  The toast store is       *)
(* global.  The service result is an input of the step that settles a load.*)
(***************************************************************************)
Pages == {"dex", "news", "catalog", "edit"}

\* The ids of the toasts that stay until they are dismissed.
PersistentToasts == {"loading", "force-loading"}

\* showToast inserts or updates by id; dismissToast filters the id out.
showToast(shown, id) == shown \cup {id}
dismissToast(shown, id) == shown \ {id}

PageLoad(i, force, background) ==
  [instance |-> i, force |-> force, background |-> background, cancelled |-> FALSE]

ModalLoad(i, seq) == [instance |-> i, currentSeq |-> seq]

NoSettle == [settled |-> FALSE, inactive |-> FALSE, changed |-> FALSE]

\* What the user sees: the page's entries and load state, the modal, the toasts.
ViewState ==
  <<pageLoadState, pageEntries, toasts, selectedMainSkill, mainSkillLevels, modalLoadState>>

\* The page is mounted: its state is initial and its mount effect starts the
\* load (the edit page shows no toast).
PageMount ==
  /\ UNCHANGED notViews
  /\ pageInstance = 0
  /\ pageMounts < MaxPageMounts
  /\ pageMounts' = pageMounts + 1
  /\ pageInstance' = pageMounts + 1
  /\ pageLoadState' = "loading"
  /\ pageEntries' = "none"
  /\ toasts' = IF page = "edit" THEN toasts ELSE showToast(toasts, "loading")
  /\ pageLoads' = pageLoads \cup {PageLoad(pageMounts + 1, FALSE, FALSE)}
  /\ selectedMainSkill' = 0
  /\ mainSkillLevels' = "none"
  /\ modalLoadState' = "idle"
  /\ modalLoadSeqRef' = 0
  /\ lastSettle' = NoSettle
  /\ UNCHANGED <<page, revalidating, modalLoads>>

\* The page is unmounted: the cleanup of the mount effect sets `cancelled`
\* and dismisses the loading toasts.
PageUnmount ==
  /\ UNCHANGED notViews
  /\ pageInstance # 0
  /\ pageInstance' = 0
  /\ pageLoads' = {IF l.instance = pageInstance /\ ~l.background /\ ~l.force
                     THEN [l EXCEPT !.cancelled = TRUE] ELSE l : l \in pageLoads}
  /\ toasts' = IF page = "edit" THEN toasts
               ELSE IF page = "news"
                 THEN dismissToast(dismissToast(toasts, "loading"), "force-loading")
               ELSE dismissToast(toasts, "loading")
  /\ lastSettle' = NoSettle
  /\ UNCHANGED <<page, pageMounts, pageLoadState, pageEntries, revalidating,
                 selectedMainSkill, mainSkillLevels, modalLoadState, modalLoadSeqRef,
                 modalLoads>>

\* A timed toast runs out.
ToastExpires(id) ==
  /\ UNCHANGED notViews
  /\ id \in toasts \ PersistentToasts
  /\ toasts' = dismissToast(toasts, id)
  /\ lastSettle' = NoSettle
  /\ UNCHANGED <<page, pageInstance, pageMounts, pageLoadState, pageEntries, pageLoads,
                 revalidating, selectedMainSkill, mainSkillLevels, modalLoadState,
                 modalLoadSeqRef, modalLoads>>

\* The page state a setter of instance i leaves: nothing happens when the
\* instance is no longer mounted.
SetPage(i, state, entries) ==
  /\ pageLoadState' = IF i = pageInstance THEN state ELSE pageLoadState
  /\ pageEntries' = IF i = pageInstance THEN entries ELSE pageEntries

\* DexPage loadDexEntries after `await fetchDexEntries()`; the effect tests
\* `cancelled` only after loadDexEntries has returned.
DexLoadSettles(load, ok, withMessage) ==
  /\ IF ok
       THEN /\ SetPage(load.instance, "ready", "data")
            /\ toasts' = IF withMessage
                           THEN showToast(dismissToast(toasts, "loading"), "done")
                           ELSE dismissToast(toasts, "loading")
       ELSE /\ SetPage(load.instance, "error", "none")
            /\ toasts' = showToast(dismissToast(toasts, "loading"), "failed")
  /\ UNCHANGED revalidating
  /\ pageLoads' = pageLoads \ {load}

\* AssetDexPage mount effect after `await fetchAssetDexEntries(catalog)`.
CatalogLoadSettles(load, ok) ==
  /\ IF load.cancelled
       THEN UNCHANGED <<pageLoadState, pageEntries, toasts>>
     ELSE IF ok
       THEN /\ SetPage(load.instance, "ready", "data")
            /\ toasts' = showToast(dismissToast(toasts, "loading"), "done")
     ELSE /\ SetPage(load.instance, "error", "none")
          /\ toasts' = showToast(dismissToast(toasts, "loading"), "failed")
  /\ UNCHANGED revalidating
  /\ pageLoads' = pageLoads \ {load}

\* UnifiedDexEditPage mount effect after its await; `ok` says that the
\* read succeeded and holds the edited item.
EditLoadSettles(load, ok) ==
  /\ IF load.cancelled
       THEN UNCHANGED <<pageLoadState, pageEntries>>
     ELSE IF ok
       THEN SetPage(load.instance, "ready", "data")
     ELSE SetPage(load.instance, "error", pageEntries)
  /\ UNCHANGED <<toasts, revalidating>>
  /\ pageLoads' = pageLoads \ {load}

\* NewsPage loadNews after `await fetchPokemonNews({ force })`, with the
\* finally of the background load it was started as.
NewsLoadSettles(load, ok, fromCache) ==
  LET loadingId == IF load.force THEN "force-loading" ELSE "loading"
      dismissed == IF load.background THEN toasts ELSE dismissToast(toasts, loadingId)
      revalidate == ok /\ fromCache /\ ~load.background
                       /\ load.instance \notin revalidating
      finished == IF load.background THEN revalidating \ {load.instance} ELSE revalidating
  IN /\ IF ok
          THEN /\ SetPage(load.instance, "ready", "data")
               /\ toasts' = IF load.background THEN dismissed
                            ELSE showToast(dismissed, "done")
        ELSE IF ~load.background
          THEN /\ SetPage(load.instance, "error", "none")
               /\ toasts' = showToast(dismissed, "failed")
        ELSE /\ UNCHANGED <<pageLoadState, pageEntries>>
             /\ toasts' = dismissed
     /\ revalidating' = IF revalidate THEN finished \cup {load.instance} ELSE finished
     /\ pageLoads' = IF revalidate
                       THEN (pageLoads \ {load}) \cup {PageLoad(load.instance, TRUE, TRUE)}
                       ELSE pageLoads \ {load}

\* The load of a page settles.  It is inactive when its page instance is
\* no longer mounted.
PageLoadSettles(load, ok, flag) ==
  /\ UNCHANGED notViews
  /\ load \in pageLoads
  /\ CASE page = "dex" -> DexLoadSettles(load, ok, flag)
       [] page = "news" -> NewsLoadSettles(load, ok, flag)
       [] page = "catalog" -> CatalogLoadSettles(load, ok)
       [] page = "edit" -> EditLoadSettles(load, ok)
  /\ UNCHANGED <<page, pageInstance, pageMounts, selectedMainSkill, mainSkillLevels,
                 modalLoadState, modalLoadSeqRef, modalLoads>>
  /\ lastSettle' = [settled |-> TRUE, inactive |-> load.instance # pageInstance,
                    changed |-> ViewState' # ViewState]

\* openMainSkillModal(item) up to its await, on the main-skill catalog page.
openMainSkillModal(item) ==
  /\ UNCHANGED notViews
  /\ page = "catalog"
  /\ pageInstance # 0
  /\ modalLoadSeqRef < MaxModalOpens
  /\ selectedMainSkill' = item
  /\ mainSkillLevels' = "none"
  /\ modalLoadState' = "loading"
  /\ modalLoadSeqRef' = modalLoadSeqRef + 1
  /\ modalLoads' = modalLoads \cup {ModalLoad(pageInstance, modalLoadSeqRef + 1)}
  /\ lastSettle' = NoSettle
  /\ UNCHANGED <<page, pageInstance, pageMounts, pageLoadState, pageEntries, toasts,
                 pageLoads, revalidating>>

\* closeMainSkillModal, also the Escape key: the modal state is cleared.
closeMainSkillModal ==
  /\ UNCHANGED notViews
  /\ pageInstance # 0
  /\ selectedMainSkill # 0
  /\ selectedMainSkill' = 0
  /\ mainSkillLevels' = "none"
  /\ modalLoadState' = "idle"
  /\ lastSettle' = NoSettle
  /\ UNCHANGED <<page, pageInstance, pageMounts, pageLoadState, pageEntries, toasts,
                 pageLoads, revalidating, modalLoadSeqRef, modalLoads>>

\* openMainSkillModal after `await fetchMainSkillLevels(item.id)`.  The load
\* is inactive when its page instance is unmounted, a later open superseded
\* it or the modal is closed.
ModalLoadSettles(load, ok) ==
  /\ UNCHANGED notViews
  /\ load \in modalLoads
  /\ modalLoads' = modalLoads \ {load}
  /\ IF load.instance # pageInstance \/ load.currentSeq # modalLoadSeqRef
       THEN UNCHANGED <<mainSkillLevels, modalLoadState>>
     ELSE IF ok
       THEN mainSkillLevels' = "data" /\ modalLoadState' = "ready"
     ELSE mainSkillLevels' = "none" /\ modalLoadState' = "error"
  /\ UNCHANGED <<page, pageInstance, pageMounts, pageLoadState, pageEntries, toasts,
                 pageLoads, revalidating, selectedMainSkill, modalLoadSeqRef>>
  /\ lastSettle' = [settled |-> TRUE,
                    inactive |-> \/ load.instance # pageInstance
                                 \/ load.currentSeq # modalLoadSeqRef
                                 \/ selectedMainSkill = 0,
                    changed |-> ViewState' # ViewState]

InitViews ==
  /\ page \in Pages
  /\ pageInstance = 0
  /\ pageMounts = 0
  /\ pageLoadState = "loading"
  /\ pageEntries = "none"
  /\ toasts = {}
  /\ pageLoads = {}
  /\ revalidating = {}
  /\ selectedMainSkill = 0
  /\ mainSkillLevels = "none"
  /\ modalLoadState = "idle"
  /\ modalLoadSeqRef = 0
  /\ modalLoads = {}
  /\ lastSettle = NoSettle

ViewsIdle == InitViews /\ page = "dex"

NextViews ==
  \/ PageMount
  \/ PageUnmount
  \/ \E id \in toasts : ToastExpires(id)
  \/ \E load \in pageLoads, ok \in BOOLEAN, flag \in BOOLEAN : PageLoadSettles(load, ok, flag)
  \/ \E item \in 1..MaxSkills : openMainSkillModal(item)
  \/ closeMainSkillModal
  \/ \E load \in modalLoads, ok \in BOOLEAN : ModalLoadSettles(load, ok)

----------------------------------------------------------------------------
(***************************************************************************)
(* Session manager: the bootstrap of AuthProvider over loadPersistedSession, *)
(* login and logout, and the expiry guard of authenticated calls            *)
(* (authSessionGuard.ts).  A session is named by a number, 0 is null.       *)
(* ensureProfileExists is one step: its requests change no state.           *)
(***************************************************************************)
AUTH_EXPIRED_PATTERNS ==
  {<<"j", "w", "t", " ", "e", "x", "p", "i", "r", "e", "d">>,
   <<"i", "n", "v", "a", "l", "i", "d", " ", "j", "w", "t">>,
   <<"e", "x", "p", "i", "r", "e", "d">>,
   <<"t", "o", "k", "e", "n", " ", "i", "s", " ", "e", "x", "p", "i", "r", "e", "d">>,
   <<"t", "o", "k", "e", "n", " ", "h", "a", "s", " ", "e", "x", "p", "i", "r", "e", "d">>}

\* The debounce window of notifyAuthSessionExpired.
AUTH_EXPIRED_DEBOUNCE_MS == 2500

\* Date.now() at the start: far above the debounce window, taken as the window.
AuthClockStart == 2500

\* The texts a response carries.
Messages ==
  {<<>>,
   <<" ", " ">>,
   <<"T", "o", "k", "e", "n", " ", "i", "s", " ", "E", "x", "p", "i", "r", "e", "d">>,
   <<"J", "W", "T", " ", "e", "x", "p", "i", "r", "e", "d">>,
   <<"I", "n", "v", "a", "l", "i", "d", " ", "J", "W", "T">>,
   <<"n", "o", "t", " ", "f", "o", "u", "n", "d">>,
   <<"e", "x", "p", "i", "r", "e">>}

\* A field of a payload: a string or something else (absent, a number, ...).
NotAString == [isString |-> FALSE, text |-> <<>>]
StringField(text) == [isString |-> TRUE, text |-> text]
MessageKeys == <<"message", "msg", "error", "error_description">>
NoKeys == [k \in {"message", "msg", "error", "error_description"} |-> NotAString]

\* A payload is null or an object: objects with one string among the message
\* keys, and objects whose `message` is blank and `msg` is a string.
NullPayload == [isObject |-> FALSE, record |-> NoKeys]
ObjectPayload(record) == [isObject |-> TRUE, record |-> record]
Payloads ==
  {NullPayload, ObjectPayload(NoKeys)}
  \cup {ObjectPayload([NoKeys EXCEPT ![k] = StringField(t)]) :
          k \in {"message", "msg", "error", "error_description"}, t \in Messages}
  \cup {ObjectPayload([NoKeys EXCEPT !["message"] = StringField(<<" ">>),
                                     !["msg"] = StringField(t)]) : t \in Messages}

Statuses == {200, 401, 403, 500}

\* pickString(record, keys) of authSessionGuard.ts: the first key whose value
\* is a string with something left after trim().
RECURSIVE pickStringFrom(_, _, _)
pickStringFrom(record, keys, i) ==
  IF i > Len(keys) THEN <<>>
  ELSE IF record[keys[i]].isString /\ trim(record[keys[i]].text) # <<>>
    THEN trim(record[keys[i]].text)
  ELSE pickStringFrom(record, keys, i + 1)

pickString(record, keys) == pickStringFrom(record, keys, 1)

\* normalizeMessage({ payload, fallback })
normalizeMessage(payload, fallback) ==
  IF payload.isObject /\ pickString(payload.record, MessageKeys) # <<>>
    THEN pickString(payload.record, MessageKeys)
    ELSE fallback

isLikelyExpiredMessage(message) ==
  \E pattern \in AUTH_EXPIRED_PATTERNS : includes(toLowerCase(message), pattern)

isAuthExpiredErrorStatusOnly(status, payload, fallbackMessage) == status = 401
isAuthExpiredError(status, payload, fallbackMessage) ==
  LET message == normalizeMessage(payload, fallbackMessage)
  IN IF message = <<>> THEN status = 401
     ELSE status = 401 \/ isLikelyExpiredMessage(message)

NoNotice == [called |-> FALSE, at |-> 0, lastDispatch |-> 0, before |-> 0, dispatched |-> FALSE]

\* notifyAuthSessionExpired(): nothing within the window after the last
\* dispatch, otherwise the timestamp is moved and the event dispatched.
\* No listener of the event exists in the application.
\* nowMs is the value Date.now() returns to the call.
notifyAuthSessionExpiredAlwaysStamps(nowMs) ==
  /\ lastNotifyAt' = nowMs
  /\ dispatches' = IF nowMs - lastNotifyAt < AUTH_EXPIRED_DEBOUNCE_MS
                     THEN dispatches ELSE Append(dispatches, nowMs)
notifyAuthSessionExpired(nowMs) ==
  IF nowMs - lastNotifyAt < AUTH_EXPIRED_DEBOUNCE_MS
    THEN UNCHANGED <<lastNotifyAt, dispatches>>
    ELSE /\ lastNotifyAt' = nowMs
         /\ dispatches' = Append(dispatches, nowMs)

\* saveSession(null) after a refused validation.
discardPersistedKeeps(stored) == stored
discardPersisted(stored) == 0

NoBoot == [settled |-> FALSE, hadPersisted |-> FALSE, answer |-> "none"]

\* The state setters of AuthProvider do nothing once it is disposed.
SetAuth(newSession, newProfile, ready) ==
  /\ session' = IF disposed THEN session ELSE newSession
  /\ profile' = IF disposed THEN profile ELSE newProfile
  /\ isReady' = IF disposed THEN isReady ELSE ready

\* The mount effect of AuthProvider: bootstrap() up to the first await of
\* loadPersistedSession.  A missing environment throws, no persisted session
\* settles at once as anonymous.
bootstrap ==
  /\ UNCHANGED notAuth
  /\ bootPc = "idle"
  /\ IF ~envConfigured
       THEN /\ SetAuth(session, profile, TRUE)
            /\ bootPc' = "done"
            /\ bootSession' = 0
            /\ lastBoot' = [settled |-> TRUE, hadPersisted |-> persisted # 0,
                            answer |-> "throws"]
     ELSE IF persisted = 0
       THEN /\ SetAuth(0, 0, TRUE)
            /\ bootPc' = "done"
            /\ bootSession' = 0
            /\ lastBoot' = [settled |-> TRUE, hadPersisted |-> FALSE, answer |-> "none"]
     ELSE /\ bootPc' = "user"
          /\ bootSession' = persisted
          /\ lastBoot' = NoBoot
          /\ UNCHANGED <<session, profile, isReady>>
  /\ lastNotice' = NoNotice
  /\ UNCHANGED <<envConfigured, authNow, authTicks, lastNotifyAt, dispatches, persisted,
                 disposed, loginPc, logins, logoutPc, expiredSession>>

BootAnswers == {"ok", "non2xx", "noUser", "throws"}

\* loadPersistedSession after the current-user endpoint settled: a refusal
\* or an unusable user discards the persisted session and settles as
\* anonymous, a rejected fetch is caught by bootstrap, a valid user is saved
\* and the profile is fetched.
loadPersistedSessionUserSettles(answer) ==
  /\ UNCHANGED notAuth
  /\ bootPc = "user"
  /\ IF answer = "ok"
       THEN /\ persisted' = bootSession
            /\ bootPc' = "profile"
            /\ lastBoot' = NoBoot
            /\ UNCHANGED <<session, profile, isReady>>
     ELSE IF answer = "throws"
       THEN /\ SetAuth(session, profile, TRUE)
            /\ bootPc' = "done"
            /\ lastBoot' = [settled |-> TRUE, hadPersisted |-> TRUE, answer |-> answer]
            /\ UNCHANGED persisted
     ELSE /\ persisted' = discardPersisted(persisted)
          /\ SetAuth(0, 0, TRUE)
          /\ bootPc' = "done"
          /\ lastBoot' = [settled |-> TRUE, hadPersisted |-> TRUE, answer |-> answer]
  /\ lastNotice' = NoNotice
  /\ UNCHANGED <<envConfigured, authNow, authTicks, lastNotifyAt, dispatches, disposed,
                 bootSession, loginPc, logins, logoutPc, expiredSession>>

\* loadPersistedSession after ensureProfileExists settled, and the rest of
\* bootstrap.
loadPersistedSessionProfileSettles(ok, hasProfile) ==
  /\ UNCHANGED notAuth
  /\ bootPc = "profile"
  /\ bootPc' = "done"
  /\ IF ok
       THEN SetAuth(bootSession, IF hasProfile THEN bootSession ELSE 0, TRUE)
       ELSE SetAuth(session, profile, TRUE)
  /\ lastBoot' = [settled |-> TRUE, hadPersisted |-> TRUE,
                  answer |-> IF ok THEN "ok" ELSE "profileThrows"]
  /\ lastNotice' = NoNotice
  /\ UNCHANGED <<envConfigured, authNow, authTicks, lastNotifyAt, dispatches, persisted,
                 disposed, bootSession, loginPc, logins, logoutPc, expiredSession>>

\* The cleanup of the mount effect.
AuthDispose ==
  /\ UNCHANGED notAuth
  /\ ~disposed
  /\ disposed' = TRUE
  /\ lastBoot' = NoBoot
  /\ lastNotice' = NoNotice
  /\ UNCHANGED <<envConfigured, authNow, authTicks, lastNotifyAt, dispatches, persisted,
                 session, profile, isReady, bootPc, bootSession, loginPc, logins, logoutPc,
                 expiredSession>>

\* login: signInWithEmail up to its token request.
login ==
  /\ UNCHANGED notAuth
  /\ ~disposed
  /\ envConfigured
  /\ loginPc = "idle"
  /\ logins < MaxLogins
  /\ logins' = logins + 1
  /\ loginPc' = "token"
  /\ lastBoot' = NoBoot
  /\ lastNotice' = NoNotice
  /\ UNCHANGED <<envConfigured, authNow, authTicks, lastNotifyAt, dispatches, persisted,
                 session, profile, isReady, disposed, bootPc, bootSession, logoutPc,
                 expiredSession>>

\* The session a login creates: 1 is the session persisted at the start.
LoginSession == logins + 1

\* signInWithEmail after the token request: a refusal throws, a session is saved.
signInWithEmailTokenSettles(ok) ==
  /\ UNCHANGED notAuth
  /\ loginPc = "token"
  /\ loginPc' = IF ok THEN "profile" ELSE "idle"
  /\ persisted' = IF ok THEN LoginSession ELSE persisted
  /\ lastBoot' = NoBoot
  /\ lastNotice' = NoNotice
  /\ UNCHANGED <<envConfigured, authNow, authTicks, lastNotifyAt, dispatches, session,
                 profile, isReady, disposed, bootPc, bootSession, logins, logoutPc,
                 expiredSession>>

\* signInWithEmail after ensureProfileExists, and the rest of login.
signInWithEmailProfileSettles(ok, hasProfile) ==
  /\ UNCHANGED notAuth
  /\ loginPc = "profile"
  /\ loginPc' = "idle"
  /\ IF ok
       THEN SetAuth(LoginSession, IF hasProfile THEN LoginSession ELSE 0, isReady)
       ELSE UNCHANGED <<session, profile, isReady>>
  /\ lastBoot' = NoBoot
  /\ lastNotice' = NoNotice
  /\ UNCHANGED <<envConfigured, authNow, authTicks, lastNotifyAt, dispatches, persisted,
                 disposed, bootPc, bootSession, logins, logoutPc, expiredSession>>

\* logout: signOut(session) removes the persisted session at once when no
\* session is held, otherwise after the logout request settled either way.
logout ==
  /\ UNCHANGED notAuth
  /\ ~disposed
  /\ logoutPc = "idle"
  /\ IF session = 0 \/ ~envConfigured
       THEN /\ persisted' = 0
            /\ SetAuth(0, 0, isReady)
            /\ expiredSession' = 0
            /\ UNCHANGED logoutPc
       ELSE /\ logoutPc' = "request"
            /\ UNCHANGED <<persisted, session, profile, isReady, expiredSession>>
  /\ lastBoot' = NoBoot
  /\ lastNotice' = NoNotice
  /\ UNCHANGED <<envConfigured, authNow, authTicks, lastNotifyAt, dispatches, disposed,
                 bootPc, bootSession, loginPc, logins>>

signOutSettles ==
  /\ UNCHANGED notAuth
  /\ logoutPc = "request"
  /\ logoutPc' = "idle"
  /\ persisted' = 0
  /\ SetAuth(0, 0, isReady)
  /\ expiredSession' = IF disposed THEN expiredSession ELSE 0
  /\ lastBoot' = NoBoot
  /\ lastNotice' = NoNotice
  /\ UNCHANGED <<envConfigured, authNow, authTicks, lastNotifyAt, dispatches, disposed,
                 bootPc, bootSession, loginPc, logins>>

\* The time that passed between two readings of Date.now().
AuthTickSteps == {0, 2499, 2500}

\* An authenticated call made with the held session settles: a response that
\* is not ok is classified and an expired one notifies.
AuthCallSettles(status, payload, fallbackMessage) ==
  /\ UNCHANGED notAuth
  /\ session # 0
  /\ IF status # 200 /\ isAuthExpiredError(status, payload, fallbackMessage)
       THEN \E d \in AuthTickSteps :
              LET nowMs == authNow + d
              IN /\ d > 0 => authTicks < MaxAuthTicks
                 /\ authTicks' = IF d > 0 THEN authTicks + 1 ELSE authTicks
                 /\ authNow' = nowMs
                 /\ notifyAuthSessionExpired(nowMs)
                 /\ expiredSession' = session
                 /\ lastNotice' = [called |-> TRUE, at |-> nowMs,
                                   lastDispatch |-> IF dispatches = <<>> THEN 0
                                                    ELSE dispatches[Len(dispatches)],
                                   before |-> lastNotifyAt,
                                   dispatched |-> dispatches' # dispatches]
       ELSE /\ lastNotice' = NoNotice
            /\ UNCHANGED <<authNow, authTicks, lastNotifyAt, dispatches, expiredSession>>
  /\ lastBoot' = NoBoot
  /\ UNCHANGED <<envConfigured, persisted, session, profile, isReady,
                 disposed, bootPc, bootSession, loginPc, logins, logoutPc>>

\* The responses of the authenticated calls of the scenario: the call sites
\* pass no fallback message.
CallStatuses == {200, 401, 500}
CallPayloads ==
  {NullPayload,
   ObjectPayload([NoKeys EXCEPT !["message"] = StringField(<<"e", "x", "p", "i", "r", "e", "d">>)]),
   ObjectPayload([NoKeys EXCEPT !["message"] = StringField(<<"n", "o">>)])}

InitAuth ==
  /\ envConfigured \in BOOLEAN
  /\ authNow = AuthClockStart
  /\ authTicks = 0
  /\ lastNotifyAt = 0
  /\ dispatches = <<>>
  /\ persisted \in {0, 1}
  /\ session = 0
  /\ profile = 0
  /\ isReady = FALSE
  /\ disposed = FALSE
  /\ bootPc = "idle"
  /\ bootSession = 0
  /\ loginPc = "idle"
  /\ logins = 0
  /\ logoutPc = "idle"
  /\ expiredSession = 0
  /\ lastBoot = NoBoot
  /\ lastNotice = NoNotice

AuthIdle == InitAuth /\ envConfigured /\ persisted = 0

\* The steps of the bootstrap, which the event loop runs once their request settled.
BootstrapSteps ==
  \/ bootstrap
  \/ \E answer \in BootAnswers : loadPersistedSessionUserSettles(answer)
  \/ \E ok \in BOOLEAN, hasProfile \in BOOLEAN : loadPersistedSessionProfileSettles(ok, hasProfile)

NextAuth ==
  \/ BootstrapSteps
  \/ AuthDispose
  \/ login
  \/ \E ok \in BOOLEAN : signInWithEmailTokenSettles(ok)
  \/ \E ok \in BOOLEAN, hasProfile \in BOOLEAN : signInWithEmailProfileSettles(ok, hasProfile)
  \/ logout
  \/ signOutSettles
  \/ \E status \in CallStatuses, payload \in CallPayloads :
       AuthCallSettles(status, payload, <<>>)

----------------------------------------------------------------------------
(***************************************************************************)
(* The classification of a response by isAuthExpiredError, applied to      *)
(* statuses, payloads and fallback messages drawn from sample sets.        *)
(***************************************************************************)
FallbackMessages == {<<>>, <<" ">>, <<"t", "o", "k", "e", "n", " ", "h", "a", "s", " ", "e", "x", "p", "i", "r", "e", "d">>}

NoCall ==
  [called |-> FALSE, status |-> 0, payload |-> NullPayload, fallbackMessage |-> <<>>,
   expired |-> FALSE]

\* isAuthExpiredError({ status, payload, fallbackMessage }) is evaluated.
Classify(status, payload, fallbackMessage) ==
  /\ UNCHANGED notGuard
  /\ lastCall' = [called |-> TRUE, status |-> status, payload |-> payload,
                  fallbackMessage |-> fallbackMessage,
                  expired |-> isAuthExpiredError(status, payload, fallbackMessage)]

GuardIdle == lastCall = NoCall

NextGuard ==
  \E status \in Statuses, payload \in Payloads, fallbackMessage \in FallbackMessages :
    Classify(status, payload, fallbackMessage)

----------------------------------------------------------------------------
(***************************************************************************)
(* The table names of writes: updateAssetDexEntry and deleteAssetDexEntry  *)
(* of the catalog service, and the parent-row writes of the main-skill     *)
(* service, against a backend that exposes the current name, the legacy    *)
(* name or both names of each resource.                                    *)
(***************************************************************************)
\* primaryTableForCatalog(catalog)
primaryTableForCatalog(catalog) == tableCandidates(catalog)[1]

\* const mainSkillTableCandidates = ['mainskills']
mainSkillTableCandidates == <<"mainskills">>

\* The writes of the catalog service take Exclude<AssetDexCatalog, 'mainskills'>.
CatalogWrites == {"updateAssetDexEntry", "deleteAssetDexEntry"}
MainSkillWrites == {"insertMainSkill", "patchMainSkill", "deleteMainSkill"}
WriteResources(op) ==
  IF op \in CatalogWrites THEN Catalogs \ {"mainskills"} ELSE {"mainskills"}

\* The tables a write tries, in the order it tries them.
WriteTables(op, resource) ==
  IF op \in CatalogWrites THEN <<primaryTableForCatalog(resource)>>
                          ELSE mainSkillTableCandidates

\* The names a backend can expose: at least one name of every catalog.
TableNames(catalog) == {tableCandidates(catalog)[i] : i \in 1..Len(tableCandidates(catalog))}
Backends ==
  {e \in SUBSET (UNION {TableNames(c) : c \in Catalogs}) :
     \A c \in Catalogs : TableNames(c) \cap e # {}}

NoTableWrite == [op |-> "none", resource |-> "none", idx |-> 0, queried |-> <<>>,
                 refused |-> FALSE]
NoTableResult == [done |-> FALSE, op |-> "none", resource |-> "none", ok |-> FALSE,
                  queried |-> <<>>, refused |-> FALSE]

\* A write is called and sends its request to the first table.
StartTableWrite(op, resource) ==
  /\ UNCHANGED notTables
  /\ tableWrite = NoTableWrite
  /\ resource \in WriteResources(op)
  /\ tableWrite' = [op |-> op, resource |-> resource, idx |-> 1,
                    queried |-> <<WriteTables(op, resource)[1]>>, refused |-> FALSE]
  /\ lastTableWrite' = NoTableResult
  /\ UNCHANGED exposed

\* The request of the write settles: a table the backend does not expose
\* answers with an error; an exposed one may fail for another reason (refused).
\* insertMainSkill, patchMainSkill and deleteMainSkill go on to the next
\* candidate, the writes of the catalog service throw.
TableWriteSettles(ok) ==
  /\ UNCHANGED notTables
  /\ tableWrite # NoTableWrite
  /\ LET tables == WriteTables(tableWrite.op, tableWrite.resource)
         table == tables[tableWrite.idx]
         refused == tableWrite.refused \/ (~ok /\ table \in exposed)
     IN /\ ok => table \in exposed
        /\ IF ~ok /\ tableWrite.idx < Len(tables)
             THEN /\ tableWrite' = [tableWrite EXCEPT
                                      !.idx = @ + 1,
                                      !.queried = Append(@, tables[tableWrite.idx + 1]),
                                      !.refused = refused]
                  /\ lastTableWrite' = NoTableResult
             ELSE /\ tableWrite' = NoTableWrite
                  /\ lastTableWrite' = [done |-> TRUE, op |-> tableWrite.op,
                                        resource |-> tableWrite.resource, ok |-> ok,
                                        queried |-> tableWrite.queried,
                                        refused |-> refused]
  /\ UNCHANGED exposed

InitTables ==
  /\ exposed \in Backends
  /\ tableWrite = NoTableWrite
  /\ lastTableWrite = NoTableResult

TablesIdle == InitTables /\ exposed = {"berries", "ingredients", "mainskills", "subskills"}

NextTables ==
  \/ \E op \in CatalogWrites \cup MainSkillWrites, resource \in Catalogs :
       StartTableWrite(op, resource)
  \/ \E ok \in BOOLEAN : TableWriteSettles(ok)

----------------------------------------------------------------------------
(***************************************************************************)
(* Validation of a submit: the creature form of UnifiedDexEditPage and the *)
(* form of MainSkillCreatePage in create mode, with a session held.  The   *)
(* fields are drawn from sample texts; the requests a submit issues are    *)
(* counted.                                                                *)
(***************************************************************************)
\* The texts of an id input, which keeps digits only, of a name or address
\* input, and of the level and value inputs of a level row.
IdTexts == {<<>>, <<"0">>, <<"1">>}
FieldTexts == {<<>>, <<" ">>, <<"a">>}
LevelTexts == {<<"1">>, <<"0">>, <<"a">>}
ValueTexts == {<<>>, <<" ">>, <<"1">>}

\* Number(text) of a text of digits, spaces and letters: NaN for a text
\* that is not a number, 0 for a blank one.
NaN == 0 - 1
ToNumber(text) ==
  IF \A i \in 1..Len(trim(text)) : IsDigit(trim(text)[i]) THEN Number(trim(text)) ELSE NaN

\* `!Number.isInteger(n) || n <= 0`
NotPositiveInteger(n) == n = NaN \/ n <= 0

\* UnifiedDexEditPage, the check of main_skill_id in submit: the message
\* thrown, or "none".
PokemonDraftError(draft) ==
  IF trim(draft.mainSkillId) # <<>> /\ NotPositiveInteger(ToNumber(trim(draft.mainSkillId)))
    THEN "main_skill_id" ELSE "none"

\* MainSkillCreatePage, the checks of submitDraft in their order: the first
\* one that fails, or "none".
SkillDraftError(draft) ==
  IF NotPositiveInteger(ToNumber(trim(draft.id))) THEN "id"
  ELSE IF trim(draft.name) = <<>> \/ trim(draft.chineseName) = <<>> THEN "names"
  ELSE IF ~draft.localImageFile /\ trim(draft.imageUrl) = <<>> THEN "image"
  ELSE IF NotPositiveInteger(ToNumber(draft.level)) THEN "level"
  ELSE IF trim(draft.value) = <<>> THEN "value"
  ELSE "none"

NoSubmit == [done |-> FALSE, form |-> "none", error |-> "none", requests |-> 0]
Submitted(formName, error, count) ==
  [done |-> TRUE, form |-> formName, error |-> error, requests |-> count]

\* submit of the creature form after its uploads: main_skill_id is checked
\* and updatePokemonEntry is requested.
CheckThenUpdate(count) ==
  IF PokemonDraftError(pokemonDraft) # "none"
    THEN /\ submitPc' = "idle"
         /\ requests' = 0
         /\ lastSubmit' = Submitted("edit", PokemonDraftError(pokemonDraft), count)
    ELSE /\ submitPc' = "update"
         /\ requests' = count + 1
         /\ lastSubmit' = NoSubmit

\* submit of the creature form, up to its first await: the chosen image
\* files are uploaded first.
submit ==
  /\ UNCHANGED notValid
  /\ screen = "edit"
  /\ submitPc = "idle"
  /\ IF pokemonDraft.normalImageFile \/ pokemonDraft.shinyImageFile
       THEN /\ submitPc' = IF pokemonDraft.normalImageFile THEN "uploadNormal"
                           ELSE "uploadShiny"
            /\ requests' = 1
            /\ lastSubmit' = NoSubmit
       ELSE CheckThenUpdate(0)
  /\ UNCHANGED <<screen, pokemonDraft, skillDraft>>

\* uploadPublicImage settles.
uploadPublicImageSettles(ok) ==
  /\ UNCHANGED notValid
  /\ submitPc \in {"uploadNormal", "uploadShiny"}
  /\ IF ~ok
       THEN /\ submitPc' = "idle"
            /\ requests' = 0
            /\ lastSubmit' = Submitted("edit", "upload", requests)
     ELSE IF submitPc = "uploadNormal" /\ pokemonDraft.shinyImageFile
       THEN /\ submitPc' = "uploadShiny"
            /\ requests' = requests + 1
            /\ lastSubmit' = NoSubmit
     ELSE CheckThenUpdate(requests)
  /\ UNCHANGED <<screen, pokemonDraft, skillDraft>>

\* updatePokemonEntry settles; the cleanup of replaced images is not counted.
updatePokemonEntrySettles(ok) ==
  /\ UNCHANGED notValid
  /\ submitPc = "update"
  /\ submitPc' = "idle"
  /\ requests' = 0
  /\ lastSubmit' = Submitted("edit", IF ok THEN "none" ELSE "update", requests)
  /\ UNCHANGED <<screen, pokemonDraft, skillDraft>>

\* submitDraft of the main-skill form: the checks, then run(), whose first
\* request is the read of the id or the write.
submitDraftChecks ==
  /\ UNCHANGED notValid
  /\ screen = "skill"
  /\ submitPc = "idle"
  /\ IF SkillDraftError(skillDraft) # "none"
       THEN /\ submitPc' = "idle"
            /\ requests' = 0
            /\ lastSubmit' = Submitted("skill", SkillDraftError(skillDraft), 0)
       ELSE /\ submitPc' = "run"
            /\ requests' = 1
            /\ lastSubmit' = NoSubmit
  /\ UNCHANGED <<screen, pokemonDraft, skillDraft>>

\* run() of the main-skill form ends.
runSettles(ok) ==
  /\ UNCHANGED notValid
  /\ submitPc = "run"
  /\ submitPc' = "idle"
  /\ requests' = 0
  /\ lastSubmit' = Submitted("skill", IF ok THEN "none" ELSE "run", requests)
  /\ UNCHANGED <<screen, pokemonDraft, skillDraft>>

DefaultPokemonDraft ==
  [mainSkillId |-> <<>>, normalImageFile |-> FALSE, shinyImageFile |-> FALSE]
DefaultSkillDraft ==
  [id |-> <<>>, name |-> <<>>, chineseName |-> <<>>, imageUrl |-> <<>>,
   localImageFile |-> FALSE, level |-> <<"1">>, value |-> <<"1">>]

InitValid ==
  /\ screen \in {"edit", "skill"}
  /\ IF screen = "edit"
       THEN /\ pokemonDraft \in [mainSkillId : IdTexts, normalImageFile : BOOLEAN,
                                 shinyImageFile : BOOLEAN]
            /\ skillDraft = DefaultSkillDraft
       ELSE /\ pokemonDraft = DefaultPokemonDraft
            /\ skillDraft \in [id : IdTexts, name : FieldTexts, chineseName : FieldTexts,
                               imageUrl : FieldTexts, localImageFile : BOOLEAN,
                               level : LevelTexts, value : ValueTexts]
  /\ submitPc = "idle"
  /\ requests = 0
  /\ lastSubmit = NoSubmit

ValidIdle ==
  /\ screen = "edit"
  /\ pokemonDraft = DefaultPokemonDraft
  /\ skillDraft = DefaultSkillDraft
  /\ submitPc = "idle"
  /\ requests = 0
  /\ lastSubmit = NoSubmit

NextValid ==
  \/ submit
  \/ \E ok \in BOOLEAN : uploadPublicImageSettles(ok)
  \/ \E ok \in BOOLEAN : updatePokemonEntrySettles(ok)
  \/ submitDraftChecks
  \/ \E ok \in BOOLEAN : runSettles(ok)

----------------------------------------------------------------------------
(***************************************************************************)
(* Extra-effects table of the asset page (toExtraEffectsTable and the      *)
(* popover that shows it).  A JSON value is a record tagged with its JS    *)
(* type; an object is the sequence of its entries in property order.       *)
(***************************************************************************)
Undefined == [t |-> "undefined"]
Null == [t |-> "null"]
Num(n) == [t |-> "number", v |-> n]
Str(s) == [t |-> "string", v |-> s]
Bool(b) == [t |-> "boolean", v |-> b]
Arr(list) == [t |-> "array", items |-> list]
Obj(entries) == [t |-> "object", entries |-> entries]
Prop(k, v) == [key |-> k, value |-> v]

\* Property names the code reads or writes.
StackEnergySnake == <<"s", "t", "a", "c", "k", "_", "e", "n", "e", "r", "g", "y">>
StackEnergyCamel == <<"s", "t", "a", "c", "k", "E", "n", "e", "r", "g", "y">>
ItemsName == <<"i", "t", "e", "m", "s">>
LevelName == <<"l", "e", "v", "e", "l">>
ValueName == <<"v", "a", "l", "u", "e">>
KeyName == <<"k", "e", "y">>
ExtraEffectsName == <<"e", "x", "t", "r", "a", "_", "e", "f", "f", "e", "c", "t", "s">>
\* The dash that stands for an empty cell (U+2014 in the source).
Dash == <<"-">>

\* `record[name]`
Get(record, name) ==
  IF \E i \in DOMAIN record.entries : record.entries[i].key = name
    THEN record.entries[CHOOSE i \in DOMAIN record.entries : record.entries[i].key = name].value
    ELSE Undefined

\* `a ?? b`
Coalesce(a, b) == IF a.t \in {"null", "undefined"} THEN b ELSE a

IsPrimitive(cell) == cell.t \in {"null", "string", "number", "boolean"}
IsPlainObject(item) == item.t = "object"

\* JSON.stringify of a value of at most two levels.
stringifyScalar(v) ==
  IF v.t = "number" THEN NumberToString(v.v)
  ELSE IF v.t = "boolean" THEN (IF v.v THEN <<"t", "r", "u", "e">> ELSE <<"f", "a", "l", "s", "e">>)
  ELSE IF v.t = "string" THEN <<"\"">> \o v.v \o <<"\"">>
  ELSE <<"n", "u", "l", "l">>

stringifyFlat(v) ==
  IF v.t = "array" THEN
    <<"[">> \o join([i \in DOMAIN v.items |-> stringifyScalar(v.items[i])], <<",">>) \o <<"]">>
  ELSE IF v.t = "object" THEN
    <<"{">> \o
    join([i \in DOMAIN v.entries |->
            <<"\"">> \o v.entries[i].key \o <<"\"", ":">> \o stringifyScalar(v.entries[i].value)],
         <<",">>) \o <<"}">>
  ELSE stringifyScalar(v)

stringify(v) ==
  IF v.t = "array" THEN
    <<"[">> \o join([i \in DOMAIN v.items |-> stringifyFlat(v.items[i])], <<",">>) \o <<"]">>
  ELSE IF v.t = "object" THEN
    <<"{">> \o
    join([i \in DOMAIN v.entries |->
            <<"\"">> \o v.entries[i].key \o <<"\"", ":">> \o stringifyFlat(v.entries[i].value)],
         <<",">>) \o <<"}">>
  ELSE stringifyScalar(v)

formatExtraEffectCell(cell) ==
  IF cell.t \in {"null", "undefined"} THEN Dash
  ELSE IF cell.t = "string" THEN (IF trim(cell.v) # <<>> THEN trim(cell.v) ELSE Dash)
  ELSE IF cell.t \in {"number", "boolean"} THEN stringifyScalar(cell)
  ELSE stringify(cell)

flattenNamedExtraEffectsField(field) ==
  IF field.t = "array" THEN field.items
  ELSE IF field.t # "object" THEN <<field>>
  ELSE IF field.entries = <<>> THEN <<>>
  ELSE IF \A i \in DOMAIN field.entries : IsPrimitive(field.entries[i].value) THEN
    [i \in DOMAIN field.entries |->
       Obj(<<Prop(LevelName, Str(field.entries[i].key)), Prop(ValueName, field.entries[i].value)>>)]
  ELSE IF \A i \in DOMAIN field.entries : isNumeric(field.entries[i].key) THEN
    [i \in DOMAIN field.entries |-> field.entries[i].value]
  ELSE <<field>>

normalizeExtraEffectsSource(source) ==
  IF source.t # "object" THEN source
  ELSE
    LET stackEnergyField == Coalesce(Get(source, StackEnergySnake), Get(source, StackEnergyCamel))
        itemsField == Get(source, ItemsName)
        flattenedRows ==
          SelectSeq(flattenNamedExtraEffectsField(stackEnergyField) \o
                      flattenNamedExtraEffectsField(itemsField),
                    LAMBDA entry : entry # Undefined)
    IN IF stackEnergyField = Undefined /\ itemsField = Undefined THEN source
       ELSE IF flattenedRows = <<>> THEN Null
       ELSE IF Len(flattenedRows) = 1 THEN flattenedRows[1]
       ELSE Arr(flattenedRows)

\* What a call of toExtraEffectsTable gives: a table, null, or a TypeError.
Table(columns, rows) == [kind |-> "table", columns |-> columns, rows |-> rows]
NoTable == [kind |-> "null", columns |-> <<>>, rows |-> <<>>]
ThrowsTypeError == [kind |-> "TypeError", columns |-> <<>>, rows |-> <<>>]

\* The keys of the rows in first-seen order.
RECURSIVE AppendNew(_, _)
AppendNew(columns, names) ==
  IF names = <<>> THEN columns
  ELSE AppendNew(IF \E i \in DOMAIN columns : columns[i] = Head(names)
                   THEN columns ELSE Append(columns, Head(names)),
                 Tail(names))

RECURSIVE ColumnsOf(_, _)
ColumnsOf(columns, rows) ==
  IF rows = <<>> THEN columns
  ELSE ColumnsOf(AppendNew(columns, [i \in DOMAIN Head(rows).entries |-> Head(rows).entries[i].key]),
                 Tail(rows))

\* JSON.parse of the texts the inputs hold: a number, or a SyntaxError.
JsonParseThrows(text) == ~isNumeric(text)
JsonParse(text) == Num(parseInt(text))

TableOfSource(source) ==
  IF source.t = "array" THEN
    IF source.items = <<>> THEN Table(<<ExtraEffectsName>>, << <<Dash>> >>)
    ELSE IF ~\A i \in DOMAIN source.items : IsPlainObject(source.items[i]) THEN
      Table(<<ExtraEffectsName>>,
            [i \in DOMAIN source.items |-> <<formatExtraEffectCell(source.items[i])>>])
    ELSE
      LET columns == ColumnsOf(<<>>, source.items)
      IN IF columns = <<>> THEN Table(<<ExtraEffectsName>>, << <<Dash>> >>)
         ELSE Table(columns,
                    [i \in DOMAIN source.items |->
                       [c \in DOMAIN columns |->
                          formatExtraEffectCell(Get(source.items[i], columns[c]))]])
  ELSE IF source.t = "null" THEN ThrowsTypeError    \* Object.entries(null)
  ELSE IF source.t = "object" THEN
    IF source.entries = <<>> THEN Table(<<KeyName, ValueName>>, << <<Dash, Dash>> >>)
    ELSE Table(<<KeyName, ValueName>>,
               [i \in DOMAIN source.entries |->
                  <<source.entries[i].key, formatExtraEffectCell(source.entries[i].value)>>])
  ELSE Table(<<ExtraEffectsName>>, << <<formatExtraEffectCell(source)>> >>)

toExtraEffectsTable(extraEffects) ==
  IF extraEffects.t = "string" /\ trim(extraEffects.v) = <<>> THEN NoTable
  ELSE IF extraEffects.t = "string" /\ JsonParseThrows(trim(extraEffects.v)) THEN
    Table(<<ExtraEffectsName>>, << <<trim(extraEffects.v)>> >>)
  ELSE
    LET source == IF extraEffects.t = "string" THEN JsonParse(trim(extraEffects.v))
                  ELSE extraEffects
    IN IF source.t \in {"null", "undefined"} THEN NoTable
       ELSE TableOfSource(normalizeExtraEffectsSource(source))

\* The extra_effects values a main-skill row can hold.
EffectKeys == {<<"0">>, <<"1">>, <<"a">>}
PrimitiveCells == {Num(600), Num(1020), Str(<<"x">>), Null}

\* Object.entries order: integer keys ascending, then the other keys.
InPropertyOrder(entries) ==
  \A i, j \in DOMAIN entries :
    i < j =>
      /\ entries[i].key # entries[j].key
      /\ isNumeric(entries[j].key) =>
           isNumeric(entries[i].key) /\ parseInt(entries[i].key) < parseInt(entries[j].key)

PrimitiveObjects ==
  {Obj(entries) :
     entries \in {e \in UNION {[1..n -> [key : EffectKeys, value : PrimitiveCells]] :
                                 n \in 0..MaxKeys} : InPropertyOrder(e)}}

LevelRow(lv, v) == Obj(<<Prop(LevelName, Num(lv)), Prop(ValueName, Num(v))>>)

NamedFields ==
  PrimitiveObjects \cup
  { Undefined, Null, Num(42), Arr(<<>>), Arr(<<LevelRow(1, 600)>>),
    Arr(<<LevelRow(1, 600), Obj(<<Prop(KeyName, Str(<<"x">>))>>)>>),
    Obj(<<Prop(<<"0">>, LevelRow(1, 600)), Prop(<<"1">>, LevelRow(2, 1020))>>),
    Obj(<<Prop(<<"a">>, LevelRow(1, 600))>>) }

ExtraEffectsInputs ==
  {Obj(<<Prop(StackEnergySnake, O)>>) : O \in NamedFields \ {Undefined}} \cup
  {Obj(<<Prop(StackEnergyCamel, O)>>) : O \in {Obj(<<Prop(<<"0">>, Num(600))>>), Num(42)}} \cup
  {Obj(<<Prop(StackEnergySnake, O), Prop(ItemsName, Arr(<<LevelRow(1, 600)>>))>>) :
     O \in {Obj(<<Prop(<<"0">>, Num(600))>>), Obj(<<>>)}} \cup
  {Obj(<<Prop(ItemsName, I)>>) : I \in {Arr(<<>>), Arr(<<Num(42)>>), LevelRow(1, 600)}} \cup
  { Undefined, Null, Num(42), Bool(TRUE), Str(<<>>), Str(<<" ">>), Str(<<"x", " ">>),
    Str(<<"4", "2">>), Arr(<<>>), Arr(<<Num(42), Str(<<"x">>)>>),
    Arr(<<LevelRow(1, 600), LevelRow(2, 1020)>>), Arr(<<Obj(<<>>)>>),
    Obj(<<>>), Obj(<<Prop(<<"a">>, Arr(<<Num(42)>>))>>), LevelRow(1, 600) }

NoPopover == [shown |-> FALSE, table |-> NoTable, placeAbove |-> FALSE]
NoOpen == [called |-> FALSE, extraEffects |-> Undefined, result |-> NoTable]

\* openExtraEffectsPopover(extraEffects, target); a TypeError of
\* toExtraEffectsTable leaves the handler before it changes anything.
openExtraEffectsPopover(extraEffects, placeAbove) ==
  LET tableData == toExtraEffectsTable(extraEffects)
  IN /\ UNCHANGED notEffects
     /\ openedEffects' = [called |-> TRUE, extraEffects |-> extraEffects, result |-> tableData]
     /\ IF tableData.kind = "TypeError"
          THEN UNCHANGED <<extraEffectsPopover, closeExtraEffectsTimer>>
          ELSE /\ closeExtraEffectsTimer' = "null"
               /\ extraEffectsPopover' =
                    [shown |-> TRUE, table |-> tableData, placeAbove |-> placeAbove]

closeExtraEffectsPopoverNow ==
  /\ UNCHANGED notEffects
  /\ extraEffectsPopover.shown
  /\ closeExtraEffectsTimer' = "null"
  /\ extraEffectsPopover' = NoPopover
  /\ openedEffects' = NoOpen

scheduleCloseExtraEffectsPopover ==
  /\ UNCHANGED notEffects
  /\ extraEffectsPopover.shown
  /\ closeExtraEffectsTimer = "null"
  /\ closeExtraEffectsTimer' = "armed"
  /\ UNCHANGED <<extraEffectsPopover, openedEffects>>

cancelCloseExtraEffectsPopover ==
  /\ UNCHANGED notEffects
  /\ closeExtraEffectsTimer = "armed"
  /\ closeExtraEffectsTimer' = "null"
  /\ UNCHANGED <<extraEffectsPopover, openedEffects>>

\* The 180 ms timer of scheduleCloseExtraEffectsPopover fires.
CloseExtraEffectsTimerFires ==
  /\ UNCHANGED notEffects
  /\ closeExtraEffectsTimer = "armed"
  /\ closeExtraEffectsTimer' = "null"
  /\ extraEffectsPopover' = NoPopover
  /\ openedEffects' = NoOpen

InitEffects ==
  /\ extraEffectsPopover = NoPopover
  /\ closeExtraEffectsTimer = "null"
  /\ openedEffects = NoOpen

EffectsIdle == InitEffects

NextEffects ==
  \/ \E extraEffects \in ExtraEffectsInputs, placeAbove \in BOOLEAN :
       openExtraEffectsPopover(extraEffects, placeAbove)
  \/ closeExtraEffectsPopoverNow
  \/ scheduleCloseExtraEffectsPopover
  \/ cancelCloseExtraEffectsPopover
  \/ CloseExtraEffectsTimerFires

(***************************************************************************)
(* Incremental reveal of the dex page (DexPage: visibleCount, the          *)
(* [searchQuery] effect, the IntersectionObserver effect).  Only the length *)
(* of filteredEntries matters here, so a collection is the number of        *)
(* entries each query keeps.                                                *)
(***************************************************************************)
PAGE_SIZE == 24

RevealQueries == {"", "a", "ab", "b"}

\* The collections loadDexEntries can deliver: how many entries there are and
\* how many each query keeps.
NoEntries == [q \in RevealQueries |-> 0]
RevealCollections ==
  { NoEntries,
    [q \in RevealQueries |->
       IF q = "" THEN 30 ELSE IF q = "a" THEN 25 ELSE IF q = "ab" THEN 3 ELSE 0],
    [q \in RevealQueries |->
       IF q = "" THEN 60 ELSE IF q = "a" THEN 49 ELSE IF q = "ab" THEN 24 ELSE 11],
    [q \in RevealQueries |->
       IF q = "" THEN 75 ELSE IF q = "a" THEN 73 ELSE IF q = "ab" THEN 48 ELSE 25],
    [q \in RevealQueries |->
       IF q = "" THEN 30 + 25 * MaxPages ELSE IF q = "a" THEN 50 ELSE IF q = "ab" THEN 26 ELSE 5] }

Min(a, b) == IF a <= b THEN a ELSE b

\* filteredEntries.length and hasMore of the current render.
FilteredLength == revealEntries[revealQuery]
hasMore == visibleCount < FilteredLength

NoFrame == [scheduled |-> FALSE, length |-> 0, stale |-> FALSE]
NoReveal == [step |-> "none", stale |-> FALSE]

\* loadDexEntries settles: 'supabase' with a collection, or a fallback.
revealLoadSettles(ok, collection) ==
  /\ UNCHANGED notReveal
  /\ revealLoadState = "loading"
  /\ revealLoadState' = IF ok THEN "ready" ELSE "error"
  /\ revealEntries' = IF ok THEN collection ELSE NoEntries
  /\ lastReveal' = [step |-> "load", stale |-> FALSE]
  /\ UNCHANGED <<revealQuery, visibleCount, isLoadingMore, revealFrame>>

\* onQueryChange of the search box with the render that follows and its
\* [searchQuery] effect, setVisibleCount(PAGE_SIZE).  A scheduled frame is not
\* cancelled: the cleanup of the observer effect only disconnects the observer.
setRevealQuery(query) ==
  /\ UNCHANGED notReveal
  /\ revealLoadState = "ready"
  /\ query # revealQuery
  /\ revealQuery' = query
  /\ visibleCount' = PAGE_SIZE
  /\ revealFrame' = IF revealFrame.scheduled THEN [revealFrame EXCEPT !.stale = TRUE]
                    ELSE revealFrame
  /\ lastReveal' = [step |-> "query", stale |-> FALSE]
  /\ UNCHANGED <<revealLoadState, revealEntries, isLoadingMore>>

\* The observer reports the sentinel as intersecting.  The observer exists
\* while hasMore and loadState is 'ready'; its callback returns when
\* isLoadingMore, else it schedules the frame, which captures
\* filteredEntries.length of this render.
SentinelIntersects ==
  /\ UNCHANGED notReveal
  /\ revealLoadState = "ready"
  /\ hasMore
  /\ ~isLoadingMore
  /\ isLoadingMore' = TRUE
  /\ revealFrame' = [scheduled |-> TRUE, length |-> FilteredLength, stale |-> FALSE]
  /\ lastReveal' = [step |-> "intersect", stale |-> FALSE]
  /\ UNCHANGED <<revealLoadState, revealEntries, revealQuery, visibleCount>>

\* `setVisibleCount((current) => Math.min(current + PAGE_SIZE, filteredEntries.length))`
RevealedCount == Min(visibleCount + PAGE_SIZE, revealFrame.length)

\* The requestAnimationFrame callback runs.
RevealFrameRuns ==
  /\ UNCHANGED notReveal
  /\ revealFrame.scheduled
  /\ visibleCount' = RevealedCount
  /\ isLoadingMore' = FALSE
  /\ revealFrame' = NoFrame
  /\ lastReveal' = [step |-> "frame", stale |-> revealFrame.stale]
  /\ UNCHANGED <<revealLoadState, revealEntries, revealQuery>>

InitReveal ==
  /\ revealLoadState = "loading"
  /\ revealEntries = NoEntries
  /\ revealQuery = ""
  /\ visibleCount = PAGE_SIZE
  /\ isLoadingMore = FALSE
  /\ revealFrame = NoFrame
  /\ lastReveal = NoReveal

RevealIdle == InitReveal

NextReveal ==
  \/ \E ok \in BOOLEAN, collection \in RevealCollections : revealLoadSettles(ok, collection)
  \/ \E query \in RevealQueries : setRevealQuery(query)
  \/ SentinelIntersects
  \/ RevealFrameRuns

(***************************************************************************)
(* Update of one entity with image replacement (UnifiedDexEditPage submit, *)
(* deletePublicImageByUrl).  A URL is a text; the text "u" stands for the   *)
(* public URL of the storage object u, "x" for a URL outside the bucket.    *)
(***************************************************************************)
EditKinds == {"pokemon", "berries"}
Slots == {"normal", "shiny"}
StoredObjects == {"u", "v"}
UploadedObject == [normal |-> "n", shiny |-> "m"]
UrlTexts == {<<>>, <<"u">>, <<"v">>, <<"u", " ">>, <<"x">>}

\* getObjectPathFromPublicUrl: null ("") for a blank URL and for one without
\* the marker of the bucket.
getObjectPathFromPublicUrl(url) ==
  LET trimmed == trim(url)
  IN IF trimmed = <<>> THEN ""
     ELSE IF trimmed[1] = "x" THEN ""
     ELSE trimmed[1]

\* The slots the form of a kind has: the asset form has one image.
SlotsOf(k) == IF k = "pokemon" THEN <<"normal", "shiny">> ELSE <<"normal">>

\* `initialUrl && initialUrl !== imageUrl` where nothing is cleaned up once the
\* initial URL is set.
ShouldDeletePreviousIfSet(initialUrl, imageUrl) == initialUrl # <<>>

\* `initialUrl && initialUrl !== imageUrl`
ShouldDeletePrevious(initialUrl, imageUrl) == initialUrl # <<>> /\ initialUrl # imageUrl

NoEditOutcome == [toast |-> "none", invalidated |-> FALSE]

\* The submit goes on with the slots from index i: the next chosen file is
\* uploaded, and after the last slot the row is patched.
UploadFrom(i, log) ==
  LET pending == {j \in i..Len(SlotsOf(editKind)) : editDraft[SlotsOf(editKind)[j]].file}
  IN IF pending = {}
       THEN /\ editPc' = [at |-> "update", slot |-> 0]
            /\ editLog' = Append(log, [request |-> "patch", url |-> <<>>, ended |-> "pending"])
       ELSE /\ editPc' = [at |-> "upload", slot |-> CHOOSE j \in pending : \A l \in pending : j <= l]
            /\ editLog' = Append(log, [request |-> "upload", url |-> <<>>, ended |-> "pending"])

\* submit, up to its first await (with a main_skill_id that passes its check).
submitEdit ==
  /\ UNCHANGED notEdit
  /\ editPc.at = "idle"
  /\ editImageUrls' = [s \in Slots |-> trim(editDraft[s].url)]
  /\ editOutcome' = NoEditOutcome
  /\ UploadFrom(1, <<>>)
  /\ UNCHANGED <<editKind, editInitial, editDraft, editStorage, editRow>>

SetLast(log, ok) == [log EXCEPT ![Len(log)].ended = IF ok THEN "ok" ELSE "failed"]

\* The submit ends in its catch block.
EditFails(log) ==
  /\ editPc' = [at |-> "idle", slot |-> 0]
  /\ editLog' = log
  /\ editOutcome' = [toast |-> "warning", invalidated |-> FALSE]

\* The submit ends with invalidateDexCache / invalidateAssetDexCache, the
\* success toast and navigate(meta.backTo).
EditSucceeds(log) ==
  /\ editPc' = [at |-> "left", slot |-> 0]
  /\ editLog' = log
  /\ editOutcome' = [toast |-> "success", invalidated |-> TRUE]

\* `await uploadPublicImage(...)` settles.
uploadPublicImageOfEditSettles(ok) ==
  /\ UNCHANGED notEdit
  /\ editPc.at = "upload"
  /\ LET s == SlotsOf(editKind)[editPc.slot]
     IN IF ok
          THEN /\ editStorage' = editStorage \cup {UploadedObject[s]}
               /\ editImageUrls' = [editImageUrls EXCEPT ![s] = <<UploadedObject[s]>>]
               /\ editOutcome' = editOutcome
               /\ UploadFrom(editPc.slot + 1, SetLast(editLog, TRUE))
          ELSE /\ EditFails(SetLast(editLog, FALSE))
               /\ UNCHANGED <<editStorage, editImageUrls>>
  /\ UNCHANGED <<editKind, editInitial, editDraft, editRow>>

\* The cleanup goes on with the slots from index i: deletePublicImageByUrl is
\* called for the next slot whose initial URL is set and differs; it requests
\* the delete when the URL names an object of the bucket.
CleanupFrom(i, log) ==
  LET due == {j \in i..Len(SlotsOf(editKind)) :
                /\ ShouldDeletePrevious(editInitial[SlotsOf(editKind)[j]],
                                        editImageUrls[SlotsOf(editKind)[j]])
                /\ getObjectPathFromPublicUrl(editInitial[SlotsOf(editKind)[j]]) # ""}
  IN IF due = {}
       THEN EditSucceeds(log)
       ELSE LET j == CHOOSE j \in due : \A l \in due : j <= l
            IN /\ editPc' = [at |-> "delete", slot |-> j]
               /\ editLog' = Append(log, [request |-> "delete",
                                          url |-> editInitial[SlotsOf(editKind)[j]],
                                          ended |-> "pending"])
               /\ editOutcome' = editOutcome

\* `await updatePokemonEntry(...)` / `await updateAssetDexEntry(...)` settles.
updateEntrySettles(ok) ==
  /\ UNCHANGED notEdit
  /\ editPc.at = "update"
  /\ IF ok
       THEN /\ editRow' = [s \in Slots |->
                             IF \E j \in DOMAIN SlotsOf(editKind) : SlotsOf(editKind)[j] = s
                               THEN editImageUrls[s] ELSE editRow[s]]
            /\ CleanupFrom(1, SetLast(editLog, TRUE))
       ELSE /\ EditFails(SetLast(editLog, FALSE))
            /\ UNCHANGED editRow
  /\ UNCHANGED <<editKind, editInitial, editDraft, editImageUrls, editStorage>>

\* `await deletePublicImageByUrl(...).catch(() => {})` settles.
deletePublicImageByUrlSettles(ok) ==
  /\ UNCHANGED notEdit
  /\ editPc.at = "delete"
  /\ editStorage' =
       IF ok THEN editStorage \
                    {getObjectPathFromPublicUrl(editInitial[SlotsOf(editKind)[editPc.slot]])}
       ELSE editStorage
  /\ CleanupFrom(editPc.slot + 1, SetLast(editLog, ok))
  /\ UNCHANGED <<editKind, editInitial, editDraft, editImageUrls, editRow>>

\* The page as loaded: the initial URLs are those of the row, the draft holds
\* what the user typed and chose.
InitEdit ==
  /\ editKind \in EditKinds
  /\ editInitial \in [Slots -> UrlTexts]
  /\ editKind # "pokemon" => editInitial["shiny"] = <<>>
  /\ editDraft \in [Slots -> [url : UrlTexts, file : BOOLEAN]]
  /\ editKind # "pokemon" => editDraft["shiny"] = [url |-> <<>>, file |-> FALSE]
  /\ editPc = [at |-> "idle", slot |-> 0]
  /\ editImageUrls = [s \in Slots |-> <<>>]
  /\ editStorage = StoredObjects
  /\ editRow = editInitial
  /\ editLog = <<>>
  /\ editOutcome = NoEditOutcome

EditIdle ==
  /\ editKind = "pokemon"
  /\ editInitial = [s \in Slots |-> <<>>]
  /\ editDraft = [s \in Slots |-> [url |-> <<>>, file |-> FALSE]]
  /\ editPc = [at |-> "idle", slot |-> 0]
  /\ editImageUrls = [s \in Slots |-> <<>>]
  /\ editStorage = StoredObjects
  /\ editRow = editInitial
  /\ editLog = <<>>
  /\ editOutcome = NoEditOutcome

NextEdit ==
  \/ submitEdit
  \/ \E ok \in BOOLEAN : uploadPublicImageOfEditSettles(ok)
  \/ \E ok \in BOOLEAN : updateEntrySettles(ok)
  \/ \E ok \in BOOLEAN : deletePublicImageByUrlSettles(ok)

(***************************************************************************)
(* Specifications                                                          *)
(***************************************************************************)
CacheIdle == InitCache /\ kind = "news"

InitSpecCache == InitCache /\ WriteIdle /\ SearchIdle /\ NewsIdle /\ FormIdle /\ ViewsIdle /\ AuthIdle /\ GuardIdle /\ TablesIdle /\ ValidIdle /\ EffectsIdle /\ RevealIdle /\ EditIdle
SpecCache == InitSpecCache /\ [][NextCache]_vars

InitSpecWrite == InitWrite /\ CacheIdle /\ SearchIdle /\ NewsIdle /\ FormIdle /\ ViewsIdle /\ AuthIdle /\ GuardIdle /\ TablesIdle /\ ValidIdle /\ EffectsIdle /\ RevealIdle /\ EditIdle
SpecWrite == InitSpecWrite /\ [][NextWrite]_vars

InitSpecDelete == InitDelete /\ CacheIdle /\ SearchIdle /\ NewsIdle /\ FormIdle /\ ViewsIdle /\ AuthIdle /\ GuardIdle /\ TablesIdle /\ ValidIdle /\ EffectsIdle /\ RevealIdle /\ EditIdle
SpecDelete == InitSpecDelete /\ [][NextDelete]_vars

InitSpecSearch == SearchIdle /\ CacheIdle /\ WriteIdle /\ NewsIdle /\ FormIdle /\ ViewsIdle /\ AuthIdle /\ GuardIdle /\ TablesIdle /\ ValidIdle /\ EffectsIdle /\ RevealIdle /\ EditIdle
SpecSearch == InitSpecSearch /\ [][NextSearch]_vars

InitSpecNews == NewsIdle /\ CacheIdle /\ WriteIdle /\ SearchIdle /\ FormIdle /\ ViewsIdle /\ AuthIdle /\ GuardIdle /\ TablesIdle /\ ValidIdle /\ EffectsIdle /\ RevealIdle /\ EditIdle
SpecNews == InitSpecNews /\ [][NextNews]_vars

InitSpecForm == FormIdle /\ CacheIdle /\ WriteIdle /\ SearchIdle /\ NewsIdle /\ ViewsIdle /\ AuthIdle /\ GuardIdle /\ TablesIdle /\ ValidIdle /\ EffectsIdle /\ RevealIdle /\ EditIdle
SpecForm == InitSpecForm /\ [][NextForm]_vars

InitSpecViews == InitViews /\ CacheIdle /\ WriteIdle /\ SearchIdle /\ NewsIdle /\ FormIdle /\ AuthIdle /\ GuardIdle /\ TablesIdle /\ ValidIdle /\ EffectsIdle /\ RevealIdle /\ EditIdle
SpecViews == InitSpecViews /\ [][NextViews]_vars

InitSpecAuth == InitAuth /\ CacheIdle /\ WriteIdle /\ SearchIdle /\ NewsIdle /\ FormIdle /\ ViewsIdle /\ GuardIdle /\ TablesIdle /\ ValidIdle /\ EffectsIdle /\ RevealIdle /\ EditIdle
SpecAuth == InitSpecAuth /\ [][NextAuth]_vars

InitSpecGuard == GuardIdle /\ CacheIdle /\ WriteIdle /\ SearchIdle /\ NewsIdle /\ FormIdle /\ ViewsIdle /\ AuthIdle /\ TablesIdle /\ ValidIdle /\ EffectsIdle /\ RevealIdle /\ EditIdle
SpecGuard == InitSpecGuard /\ [][NextGuard]_vars

InitSpecTables == InitTables /\ CacheIdle /\ WriteIdle /\ SearchIdle /\ NewsIdle /\ FormIdle /\ ViewsIdle /\ AuthIdle /\ GuardIdle /\ ValidIdle /\ EffectsIdle /\ RevealIdle /\ EditIdle
SpecTables == InitSpecTables /\ [][NextTables]_vars

InitSpecValid == InitValid /\ CacheIdle /\ WriteIdle /\ SearchIdle /\ NewsIdle /\ FormIdle /\ ViewsIdle /\ AuthIdle /\ GuardIdle /\ TablesIdle /\ EffectsIdle /\ RevealIdle /\ EditIdle
SpecValid == InitSpecValid /\ [][NextValid]_vars

InitSpecEffects == InitEffects /\ CacheIdle /\ WriteIdle /\ SearchIdle /\ NewsIdle /\ FormIdle /\ ViewsIdle /\ AuthIdle /\ GuardIdle /\ TablesIdle /\ ValidIdle /\ RevealIdle /\ EditIdle
SpecEffects == InitSpecEffects /\ [][NextEffects]_vars

InitSpecReveal == InitReveal /\ CacheIdle /\ WriteIdle /\ SearchIdle /\ NewsIdle /\ FormIdle /\ ViewsIdle /\ AuthIdle /\ GuardIdle /\ TablesIdle /\ ValidIdle /\ EffectsIdle /\ EditIdle
SpecReveal == InitSpecReveal /\ [][NextReveal]_vars

InitSpecEdit == InitEdit /\ CacheIdle /\ WriteIdle /\ SearchIdle /\ NewsIdle /\ FormIdle /\ ViewsIdle /\ AuthIdle /\ GuardIdle /\ TablesIdle /\ ValidIdle /\ EffectsIdle /\ RevealIdle
SpecEdit == InitSpecEdit /\ [][NextEdit]_vars

\* The event loop runs a continuation of the bootstrap once its request settled.
SpecAuthLive == SpecAuth /\ WF_vars(BootstrapSteps)

----------------------------------------------------------------------------
(***************************************************************************)
(* Claims about the cache layer, checked under SpecCache.                  *)
(***************************************************************************)
ServedFromTier == lastResult.origin \in {"memory", "session"}

\* C1 as stated: a read without force whose data comes from the memory tier or
\* the persisted tier was performed while that entry's expiresAt > now.
C1_ServedOnlyWhileFresh ==
  (ServedFromTier /\ ~lastResult.force) =>
    lastResult.servedExpiresAt > lastResult.readAt

\* C1 as amended: a read is answered from a tier without a network request
\* only while that entry's expiresAt > now; data of the memory tier returned
\* after a network request is the news service keeping its previous non-empty
\* list over an empty answer, whatever the expiry of that entry.
C1_ServedWithoutFetchOnlyWhileFresh ==
  /\ (ServedFromTier /\ lastResult.calls = 0) =>
       lastResult.servedExpiresAt > lastResult.readAt
  /\ (ServedFromTier /\ lastResult.calls > 0) =>
       /\ kind = "news"
       /\ lastResult.origin = "memory"
       /\ lastResult.fromCache
       /\ lastResult.data.rows > 0

\* C1's case: an entry is served at the last instant before it expires, after
\* the clock has advanced.
C1_Witness ==
  /\ ServedFromTier
  /\ lastResult.calls = 0
  /\ lastResult.servedExpiresAt = lastResult.readAt + 1
  /\ ticks > 0

\* C2, its invalidation clause: the first read started after invalidateDexCache /
\* invalidateAssetDexCache(kind) issues a live network fetch; it is not answered
\* from a tier.
C2_ReadAfterInvalidateGoesLive ==
  lastResult.sinceInvalidate => lastResult.calls > 0

\* C3: data returned from a tier was delivered by the network at most one TTL
\* before the read.
C3_CachedDataAtMostOneTtlOld ==
  (ServedFromTier /\ lastResult.calls = 0) =>
    lastResult.readAt - lastResult.data.at <= CacheTtl(kind)

\* C4: when both tiers hold an entry of a key, the memory entry expires no
\* earlier than the persisted one and its data is not older.
C4_MemoryAtLeastAsFresh ==
  \A k \in CacheKinds :
    (memoryCache[k].has /\ sessionStore[k].has) =>
      /\ memoryCache[k].expiresAt >= sessionStore[k].expiresAt
      /\ memoryCache[k].data.at >= sessionStore[k].data.at

----------------------------------------------------------------------------
(***************************************************************************)
(* Claims about the write workflows, checked under SpecWrite.              *)
(***************************************************************************)
\* createMainSkillWithLevels has thrown after its parent insert succeeded and
\* replaceLevels failed.
CreateFailedAfterInsert ==
  /\ call.op = "create"
  /\ call.pc = "threw"
  /\ trail.parentInserted
  /\ trail.levelsFailed

\* C5 as stated: when createMainSkillWithLevels has thrown after the parent
\* insert succeeded and replaceLevels failed, the parent row no longer exists,
\* and the error text says 'rolled back' or 'rollback failed' according to
\* whether the rollback delete succeeded.
C5_ParentGoneAfterLevelFailure ==
  CreateFailedAfterInsert =>
    /\ ~backend.skill.exists
    /\ call.rollbackMessage =
         IF trail.rollback = "ok" THEN "rolledBack" ELSE "rollbackFailed"

\* C5 as amended: in that case the parent row is gone and the text says
\* 'rolled back' when the rollback delete was answered ok; the row is still
\* there and the text says 'rollback failed' when the delete was refused; and
\* when the delete request itself failed the error is that request's error,
\* with neither text.
C5_ParentGoneWhenRollbackAnsweredOk ==
  CreateFailedAfterInsert =>
    /\ trail.rollback \in Outcomes
    /\ trail.rollback = "ok" =>
         ~backend.skill.exists /\ call.rollbackMessage = "rolledBack"
    /\ trail.rollback = "rejected" =>
         /\ backend.skill = SkillRow(call.description, call.resolvedImageUrl)
         /\ call.rollbackMessage = "rollbackFailed"
         /\ call.error \in {"levelsFailed", "noLevelSchema", "network"}
    /\ trail.rollback = "unreachable" =>
         /\ call.rollbackMessage = "none"
         /\ call.error = "network"

\* C5's case: the rollback delete was refused after a refused level insert.
C5_Witness ==
  /\ CreateFailedAfterInsert
  /\ trail.rollback = "rejected"
  /\ call.error = "levelsFailed"
  /\ call.levels > 0

\* C6: updateMainSkillWithLevels appears atomic: when it has thrown, the parent
\* row and the level rows of the id are those from before the call; when it
\* has returned, they are the new ones.
C6_UpdateAppearsAtomic ==
  call.op = "update" =>
    /\ call.pc = "threw" =>
         /\ backend.skill = trail.before.skill
         /\ backend.levels = trail.before.levels
    /\ call.pc = "returned" =>
         /\ backend.skill = SkillRow(call.description, call.resolvedImageUrl)
         /\ backend.levels = LevelRows(call.levels, call.description)

----------------------------------------------------------------------------
(***************************************************************************)
(* Claims about the creature search, checked under SpecSearch.             *)
(***************************************************************************)
ScoreOf(pokemon) == scorePokemon(pokemon, searchQuery)
Occurrences(list, x) == Cardinality({i \in DOMAIN list : list[i] = x})
Shown == {allEntries[i] : i \in DOMAIN allEntries} \cup
         {filteredEntries[i] : i \in DOMAIN filteredEntries}

\* C7: with a query that is not blank, filteredEntries holds exactly the entries
\* with scorePokemon(entry, query) > 0, by descending score and, at equal score,
\* ascending dexNo; with a blank query every score is 0 and filteredEntries is
\* the whole collection by ascending dexNo.
C7_FilteredExactlyPositiveScoresInOrder ==
  IF trim(searchQuery) # <<>> THEN
    /\ \A e \in Shown :
         Occurrences(filteredEntries, e) =
           IF ScoreOf(e) > 0 THEN Occurrences(allEntries, e) ELSE 0
    /\ \A i, j \in DOMAIN filteredEntries :
         i < j =>
           \/ ScoreOf(filteredEntries[i]) > ScoreOf(filteredEntries[j])
           \/ /\ ScoreOf(filteredEntries[i]) = ScoreOf(filteredEntries[j])
              /\ filteredEntries[i].dexNo <= filteredEntries[j].dexNo
  ELSE
    /\ \A e \in Shown : ScoreOf(e) = 0
    /\ \A e \in Shown : Occurrences(filteredEntries, e) = Occurrences(allEntries, e)
    /\ \A i, j \in DOMAIN filteredEntries :
         i < j => filteredEntries[i].dexNo <= filteredEntries[j].dexNo

\* C7's case: a query that drops an entry and scores two entries equally, which
\* the list delivered in descending dexNo order.
C7_Witness ==
  /\ trim(searchQuery) # <<>>
  /\ Len(filteredEntries) >= 2
  /\ Len(filteredEntries) < Len(allEntries)
  /\ ScoreOf(filteredEntries[1]) = ScoreOf(filteredEntries[2])
  /\ filteredEntries[1].dexNo < filteredEntries[2].dexNo
  /\ \E i, j \in DOMAIN allEntries :
       i < j /\ allEntries[i] = filteredEntries[2] /\ allEntries[j] = filteredEntries[1]

\* The numeric queries of at most MaxQueryLen digits.
NumericQueries ==
  UNION {[1..n -> {c \in QueryChars : IsDigit(c)}] : n \in 1..MaxQueryLen}

\* The query is p's id padded with zeros to max(3, |q|) and starts with a zero.
IsPaddedIdQuery(p, q) ==
  /\ isNumeric(q)
  /\ Len(q) > 1
  /\ startsWith(q, <<"0">>)
  /\ q = padStart(NumberToString(p.dexNo), Max(3, Len(q)), "0")

HasDigit(s) == \E i \in DOMAIN s : IsDigit(s[i])
TextFieldsHoldDigit(p) ==
  \/ HasDigit(p.name) \/ HasDigit(p.mainSkill) \/ HasDigit(p.type) \/ HasDigit(p.talent)
  \/ \E i \in DOMAIN p.ingredients : HasDigit(p.ingredients[i])

\* C21 as the spec states it: for a creature p and the leading-zero query q that
\* is p's padded id, the id bonus is 260, above the suffix bonus 180 and the
\* substring bonus 95, and scorePokemon(p, q) >= scorePokemon(p, q') for every
\* numeric q' whose id bonus for p is 0.
C21_PaddedIdQueryDominatesEveryOtherNumber ==
  LET q == normalizeText(searchQuery)
  IN \A i \in DOMAIN allEntries :
       LET p == allEntries[i]
       IN IsPaddedIdQuery(p, q) =>
            /\ NumericIdScore(p.dexNo, q) = 260
            /\ \A other \in NumericQueries :
                 NumericIdScore(p.dexNo, other) = 0 =>
                   scorePokemon(p, q) >= scorePokemon(p, other)

\* C21: for a creature p and the leading-zero query q that is p's padded id, the
\* id bonus is 260, above the bonus of every number that is not p's id (at most
\* 180, a suffix; 95 for a substring), and when no text field of p holds a digit,
\* scorePokemon(p, q) >= scorePokemon(p, q') for every numeric q' that is not
\* p's id.
C21_PaddedIdQueryDominatesOnDigitFreeFields ==
  LET q == normalizeText(searchQuery)
  IN \A i \in DOMAIN allEntries :
       LET p == allEntries[i]
       IN IsPaddedIdQuery(p, q) =>
            /\ NumericIdScore(p.dexNo, q) = 260
            /\ \A other \in NumericQueries :
                 parseInt(other) # p.dexNo =>
                   /\ NumericIdScore(p.dexNo, other) <= 180
                   /\ ~TextFieldsHoldDigit(p) =>
                        scorePokemon(p, q) >= scorePokemon(p, other)

\* C21's case: creature 25 is shown for the query "025", which scores it 260,
\* and another number ("5") scores it less through the substring of the id.
C21_Witness ==
  /\ normalizeText(searchQuery) = <<"0", "2", "5">>
  /\ \E i \in DOMAIN filteredEntries :
       /\ filteredEntries[i].dexNo = 25
       /\ ~TextFieldsHoldDigit(filteredEntries[i])
       /\ ScoreOf(filteredEntries[i]) = 260
       /\ scorePokemon(filteredEntries[i], <<"5">>) = 25

\* What a field adds to the score: the score less the score of the same
\* creature with that field blank.
NameShare(p, query) == scorePokemon(p, query) - scorePokemon([p EXCEPT !.name = <<>>], query)
SkillShare(p, query) ==
  scorePokemon(p, query) - scorePokemon([p EXCEPT !.mainSkill = <<>>], query)
IngredientsShare(p, query) ==
  scorePokemon(p, query) - scorePokemon([p EXCEPT !.ingredients = <<>>], query)

\* The hit of the spaced comparison of the name.
SpacedNameHit(p, query) ==
  LET q == normalizeText(query)
      name == normalizeText(p.name)
  IN IF q = <<>> THEN 0
     ELSE IF name = q THEN 150
     ELSE IF startsWith(name, q) THEN 110
     ELSE IF includes(name, q) THEN 80
     ELSE 0

\* C23 as the spec states it: the compacted pass adds +25 (name), +15 (main
\* skill), +15 (ingredients) only when the spaced comparison of the same field
\* counted no hit, so a field adds either its spaced hit or its compact bonus; a
\* query equal to the name adds 150 for the name.
C23_CompactBonusOnlyWithoutSpacedHit ==
  \A i \in DOMAIN allEntries :
    LET p == allEntries[i]
    IN /\ NameShare(p, searchQuery) \in {0, 25, 80, 110, 150}
       /\ SkillShare(p, searchQuery) \in {0, 15, 70}
       /\ IngredientsShare(p, searchQuery) \in {0, 15, 55}
       /\ SpacedNameHit(p, searchQuery) = 150 => NameShare(p, searchQuery) = 150

\* C23: the compacted pass adds +25 (name), +15 (main skill), +15 (ingredients)
\* whenever the compacted field contains the compacted query, on top of a hit of
\* the spaced comparison of the same field: a field adds 0, its compact bonus
\* alone, or its spaced hit plus the compact bonus; a query equal to the name
\* adds 150 + 25 for the name.
C23_CompactBonusOnTopOfSpacedHit ==
  \A i \in DOMAIN allEntries :
    LET p == allEntries[i]
    IN /\ NameShare(p, searchQuery) \in {0, 25, 105, 135, 175}
       /\ SkillShare(p, searchQuery) \in {0, 15, 85}
       /\ IngredientsShare(p, searchQuery) \in {0, 15, 70}
       /\ SpacedNameHit(p, searchQuery) > 0 =>
            NameShare(p, searchQuery) = SpacedNameHit(p, searchQuery) + 25

\* C23's case: the query is the name of a shown creature, which adds 175, and
\* another shown creature is reached by the compacted pass alone.
C23_Witness ==
  /\ \E i \in DOMAIN filteredEntries :
       /\ normalizeText(filteredEntries[i].name) = normalizeText(searchQuery)
       /\ NameShare(filteredEntries[i], searchQuery) = 175
  /\ \E i \in DOMAIN filteredEntries :
       /\ SpacedNameHit(filteredEntries[i], searchQuery) = 0
       /\ NameShare(filteredEntries[i], searchQuery) = 25

----------------------------------------------------------------------------
(***************************************************************************)
(* Claims about the news page, checked under SpecNews.                     *)
(***************************************************************************)
\* C8 as stated: a background forced refetch is scheduled exactly when a
\* load that is not a background load was served from the persisted tier; a
\* load served from the memory tier or one that went to the network schedules none.
C8_RevalidatesExactlyOnPersistedHit ==
  lastLoad.settled =>
    (lastLoad.scheduled <=> (~lastLoad.background /\ lastLoad.origin = "session"))

\* C8 as amended: a background forced refetch is scheduled exactly when a load
\* that is not a background load returned data marked fromCache (a memory tier
\* hit, a persisted tier hit, or the previous list kept over an empty network
\* answer) while the instance's isRevalidatingRef is not set; a load that
\* returned network data or a fallback, and a background load, schedule none.
C8_RevalidatesOnEveryCachedResult ==
  lastLoad.settled =>
    /\ lastLoad.scheduled <=>
         /\ ~lastLoad.background
         /\ lastLoad.origin \in {"memory", "session"}
         /\ ~lastLoad.guard
    /\ lastLoad.origin \in {"memory", "session", "network", "none"}
    /\ lastLoad.origin \in {"network", "none"} => lastLoad.calls > 0
    /\ lastLoad.origin = "session" => lastLoad.calls = 0

\* C8's case: a load answered by the memory tier without a network request
\* scheduled a revalidation.
C8_Witness ==
  /\ lastLoad.settled
  /\ lastLoad.origin = "memory"
  /\ lastLoad.calls = 0
  /\ lastLoad.scheduled

\* C9: while a background revalidation is in flight no further request for the
\* news table is issued, neither by a second revalidation (also of a page
\* mounted again) nor by handleForceRefresh.
C9_NoNewsCallWhileRevalidating ==
  lastLoad.issued # "none" => ~lastLoad.duringRevalidation

----------------------------------------------------------------------------
(***************************************************************************)
(* Claims about the main-skill form, checked under SpecForm.               *)
(***************************************************************************)
\* C10: when the response of a detection lookup changes the state of the
\* form (it fills the form, blanks it or ends the busy state), the lookup
\* is the most recently issued detection request and asked for the id that
\* is in the input; the response of any earlier request changes nothing.
C10_OnlyLatestDetectionApplied ==
  lastResponse.settled =>
    /\ lastResponse.changed =>
         /\ lastResponse.requestSeq = lastResponse.latestIssued
         /\ lastResponse.id = lastResponse.inputId
    /\ lastResponse.requestSeq # lastResponse.latestIssued => ~lastResponse.changed

\* A found response of an earlier request was dropped while a later request
\* for another id is in flight and the form still shows an applied draft.
C10_Witness ==
  /\ lastResponse.settled
  /\ lastResponse.outcome = "found"
  /\ lastResponse.requestSeq < lastResponse.latestIssued
  /\ lastResponse.id # lastResponse.inputId
  /\ form.name.kind = "draft"
  /\ form.name.id # lastResponse.id

----------------------------------------------------------------------------
(***************************************************************************)
(* Claims about the data-loading views, checked under SpecViews.           *)
(***************************************************************************)
\* C11: a response that arrives after its view was unmounted, after its
\* request was superseded or after its modal was closed changes nothing of
\* what the user sees: entries, load states, modal content and toasts.
C11_InactiveResponseChangesNothing ==
  (lastSettle.settled /\ lastSettle.inactive) => ~lastSettle.changed

----------------------------------------------------------------------------
(***************************************************************************)
(* Claims about the session manager, checked under SpecAuth and, for       *)
(* progress, under SpecAuthLive.                                           *)
(***************************************************************************)
\* "authenticated" or "anonymous": isAuthenticated is Boolean(session?.user).
AuthState == IF session # 0 THEN "authenticated" ELSE "anonymous"

BootstrapEnded == lastBoot.settled /\ ~disposed

\* C12: the bootstrap ends with isReady set in one of the states
\* authenticated and anonymous, authenticated only with the validated
\* session or a session of a login; isReady eventually becomes true, also
\* when the validation call throws; and when a persisted session is present
\* and the current-user endpoint answers with a non-2xx status, the
\* bootstrap ends anonymous with the persisted session removed.
C12_BootstrapSettles ==
  /\ [](BootstrapEnded =>
          /\ isReady
          /\ bootPc = "done"
          /\ AuthState \in {"authenticated", "anonymous"}
          /\ (AuthState = "authenticated" /\ logins = 0) => lastBoot.answer = "ok")
  /\ []((BootstrapEnded /\ lastBoot.hadPersisted /\ lastBoot.answer = "non2xx") =>
          (AuthState = "anonymous" /\ persisted = 0))
  /\ []((lastBoot.settled /\ lastBoot.hadPersisted /\ lastBoot.answer = "non2xx") =>
          persisted = 0)
  /\ <>(isReady \/ disposed)

\* The bootstrap found a persisted session, the endpoint refused it, and it
\* ended ready and anonymous.
C12_Witness ==
  /\ BootstrapEnded
  /\ lastBoot.hadPersisted
  /\ lastBoot.answer = "non2xx"
  /\ isReady
  /\ AuthState = "anonymous"

\* No request of the session manager is awaited.
AuthQuiescent == bootPc \in {"idle", "done"} /\ loginPc = "idle" /\ logoutPc = "idle"

\* C13: once an authenticated call has detected an auth-expiry signature
\* for the held session, that session is destroyed without a logout: when
\* the session manager has nothing left to do, it is neither the in-memory
\* session nor the persisted one.
C13_ExpiredSessionDestroyed ==
  (AuthQuiescent /\ expiredSession # 0) =>
    (session # expiredSession /\ persisted # expiredSession)

\* C14: any two dispatched expiry events are at least 2500 ms apart, and a
\* call made less than 2500 ms after the last dispatched event dispatches
\* nothing and leaves lastNotifyAt as it was.
C14_DispatchesDebounced ==
  /\ \A i \in 1..(Len(dispatches) - 1) : dispatches[i + 1] - dispatches[i] >= 2500
  /\ (lastNotice.called /\ lastNotice.at - lastNotice.lastDispatch < 2500) =>
       (~lastNotice.dispatched /\ lastNotifyAt = lastNotice.before)

\* Two events were dispatched and a later call within the window was dropped.
C14_Witness ==
  /\ Len(dispatches) = 2
  /\ lastNotice.called
  /\ ~lastNotice.dispatched
  /\ lastNotice.at > lastNotice.lastDispatch

----------------------------------------------------------------------------
(***************************************************************************)
(* Claim about isAuthExpiredError, checked under SpecGuard.                *)
(***************************************************************************)
\* The message isAuthExpiredError extracts from its input.
ExtractedMessage == normalizeMessage(lastCall.payload, lastCall.fallbackMessage)

\* The text holds one of the expiry phrases, whatever the case of its letters.
HoldsExpiryPhrase(text) ==
  \E pattern \in AUTH_EXPIRED_PATTERNS :
    \E i \in 1..(Len(text) - Len(pattern) + 1) :
      \A j \in 1..Len(pattern) : toLowerCaseChar(text[i + j - 1]) = pattern[j]

\* C15: isAuthExpiredError answers true exactly when the status is 401 or
\* the extracted message holds a known expiry phrase in any case; so 401
\* without a parseable message is expired, and so is 200 with a message
\* that holds "token is expired".
C15_ExpiredIffStatusOrPhrase ==
  lastCall.called =>
    /\ lastCall.expired <=> (lastCall.status = 401 \/ HoldsExpiryPhrase(ExtractedMessage))
    /\ (lastCall.status = 401 /\ ExtractedMessage = <<>>) => lastCall.expired
    /\ (lastCall.status = 200 /\ HoldsExpiryPhrase(ExtractedMessage)) => lastCall.expired

\* A response with status 200 whose message, found under a later key and in
\* another case, holds an expiry phrase was classified as expired.
C15_Witness ==
  /\ lastCall.called
  /\ lastCall.status = 200
  /\ lastCall.expired
  /\ lastCall.payload.isObject
  /\ ~lastCall.payload.record["message"].isString
  /\ ExtractedMessage # toLowerCase(ExtractedMessage)

----------------------------------------------------------------------------
(***************************************************************************)
(* Claim about the table candidates of a read, checked under SpecCache.    *)
(***************************************************************************)
\* The table names of a resource as declared: the current name first, the
\* legacy name second.
DeclaredPriority(k) ==
  CASE k = "mainskills" -> <<"mainskills", "main_skills">>
    [] k = "subskills" -> <<"subskills", "sub_skills">>
    [] k = "levels" -> <<"mainskill_levels", "main_skill_levels">>
    [] k = "berries" -> <<"berries">>
    [] k = "ingredients" -> <<"ingredients">>

\* The read of a catalog or of the main-skill levels that just returned went
\* to the network.
CandidateReadReturned ==
  kind \in Catalogs \cup {"levels"} /\ lastResult.calls > 0

\* C16: a read of a resource with several candidate table names queries
\* them in the declared priority order, queries no candidate after one
\* answered successfully, returns the rows of that single candidate, and
\* fails only when every candidate failed, so that a backend exposing only
\* the legacy name still yields a successful read.
C16_CandidatesInPriorityOrder ==
  CandidateReadReturned =>
    LET q == lastResult.queried
        a == lastResult.answers
        n == Len(lastResult.queried)
    IN /\ n >= 1
       /\ Len(a) = n
       /\ n <= Len(DeclaredPriority(kind))
       /\ q = SubSeq(DeclaredPriority(kind), 1, n)
       /\ \A i \in 1..(n - 1) : ~a[i]
       /\ a[n] => /\ lastResult.source = "supabase"
                  /\ lastResult.origin = "network"
                  /\ lastResult.table = q[n]
       /\ ~a[n] => /\ n = Len(DeclaredPriority(kind))
                   /\ lastResult.source = "fallback"

\* The primary table of the main skills failed and the legacy table
\* delivered the rows.
C16_Witness ==
  /\ kind = "mainskills"
  /\ lastResult.answers = <<FALSE, TRUE>>
  /\ lastResult.queried = <<"mainskills", "main_skills">>
  /\ lastResult.table = "main_skills"
  /\ lastResult.source = "supabase"
  /\ lastResult.data.rows > 0

----------------------------------------------------------------------------
(***************************************************************************)
(* Claim about the table names of writes, checked under SpecTables.        *)
(***************************************************************************)
\* C17: a write tries the candidate table names of its resource in the
\* priority order of the reads, and succeeds whenever the backend exposes
\* one of the names, the legacy one alone included, and no exposed table
\* refused the request for another reason.
C17_WritesFallBackToLegacy ==
  lastTableWrite.done =>
    /\ lastTableWrite.queried =
         SubSeq(DeclaredPriority(lastTableWrite.resource), 1, Len(lastTableWrite.queried))
    /\ ~lastTableWrite.refused => lastTableWrite.ok

----------------------------------------------------------------------------
(***************************************************************************)
(* Claim about the mode of a submission, checked under SpecForm.           *)
(***************************************************************************)
\* C18: when the submission of the form in create mode calls
\* updateMainSkillWithLevels, the target id exists (the detection or the
\* read of the submission found its row), and when it calls
\* createMainSkillWithLevels, the read of the submission established that
\* the id does not exist: the table answered with no row.
C18_ModeFollowsExistence ==
  submission.pc = "write" =>
    IF submission.shouldUpdate
      THEN submission.established \in {"detected", "row"}
      ELSE submission.established = "noRow"

\* The fields of a form that hold what the user typed or nothing.
HoldsNoDraft(fields) == fields.name.kind # "draft" /\ fields.imageUrl.kind # "draft"

\* The first half of C27: a detection that finds the id and is applied fills
\* the form from the draft of that id and sets resolvedExistingSkillId, from
\* which submitDraft takes the update mode.
FoundPopulatesForm ==
  (lastResponse.settled /\ lastResponse.outcome = "found" /\ ~lastResponse.stale) =>
    /\ form = applyDraftToForm(lastResponse.id)
    /\ resolvedExistingSkillId = lastResponse.id

\* C27: a detection that finds the id populates the form and makes the next
\* submit an update; a detection that does not find the id leaves the fields
\* the user entered unchanged when no detection had been positive before.  The
\* detection with request number 2 is the first one the form issued, so none
\* was positive before it.
C27_NotFoundKeepsEnteredFields ==
  /\ FoundPopulatesForm
  /\ ( /\ lastResponse.settled
       /\ lastResponse.outcome = "notFound"
       /\ lastResponse.requestSeq = 2
       /\ HoldsNoDraft(lastResponse.formBefore) ) =>
       form = lastResponse.formBefore

----------------------------------------------------------------------------
(***************************************************************************)
(* Claim about reads after a mutation, checked under SpecCache.            *)
(***************************************************************************)
\* C19: the first read of a resource started after a successful mutation
\* affecting it performs a live fetch; it is not answered from a tier filled
\* before the mutation.  For the level rows of a main skill: after a
\* successful create or update of the skill with its levels, the next
\* fetchMainSkillLevels goes to the network.
C19_ReadAfterMutationGoesLive ==
  lastResult.sinceMutation => lastResult.calls > 0

----------------------------------------------------------------------------
(***************************************************************************)
(* Claim about the validation of a submit, checked under SpecValid.        *)
(***************************************************************************)
\* The submit that just ended showed the error of a validation check.
ValidationErrors == {"main_skill_id", "id", "names", "image", "level", "value"}

\* C20: a submit that ends with the error of a client-side validation check
\* has issued no network request: no upload, no read and no write.
C20_InvalidSubmitSendsNothing ==
  (lastSubmit.done /\ lastSubmit.error \in ValidationErrors) => lastSubmit.requests = 0
----------------------------------------------------------------------------
(***************************************************************************)
(* Claims about the extra-effects table, checked under SpecEffects.        *)
(***************************************************************************)
\* The last open call was given {stack_energy: O}, O an object of primitives
\* that is not empty.
OpenedStackEnergyOfPrimitives ==
  /\ openedEffects.called
  /\ \E O \in PrimitiveObjects :
       /\ O.entries # <<>>
       /\ openedEffects.extraEffects = Obj(<<Prop(StackEnergySnake, O)>>)

\* C22: for extra_effects {stack_energy: O}, O an object of primitives with one
\* key or more, toExtraEffectsTable gives the columns level and value and one row
\* per key of O, which holds the key and the formatted value.
C22_OneRowPerStackEnergyKey ==
  OpenedStackEnergyOfPrimitives =>
    LET O == Get(openedEffects.extraEffects, StackEnergySnake)
        table == openedEffects.result
    IN /\ table.kind = "table"
       /\ table.columns = <<LevelName, ValueName>>
       /\ Len(table.rows) = Len(O.entries)
       /\ \A i \in DOMAIN O.entries :
            table.rows[i] = <<O.entries[i].key, formatExtraEffectCell(O.entries[i].value)>>
----------------------------------------------------------------------------
(***************************************************************************)
(* Claims about the incremental reveal, checked under SpecReveal.          *)
(***************************************************************************)
\* C24: after a change of the search query the revealed count is one page (24),
\* and a reveal callback that was scheduled before the change does not raise the
\* count above one page when it runs.
C24_QueryChangeKeepsOnePage ==
  /\ lastReveal.step = "query" => visibleCount = PAGE_SIZE
  /\ (lastReveal.step = "frame" /\ lastReveal.stale) => visibleCount <= PAGE_SIZE
----------------------------------------------------------------------------
(***************************************************************************)
(* Claims about the update with image replacement, checked under SpecEdit. *)
(***************************************************************************)
EditRequests(request, ended) ==
  {i \in DOMAIN editLog : editLog[i].request = request /\ editLog[i].ended = ended}

\* C25: in an update with image replacement a delete of a previous image is
\* requested only after the patch of the row has succeeded and only for an
\* initial URL that differs from the new URL of its slot; when the patch fails
\* no image is deleted and the submit fails; a delete that fails changes nothing
\* of the outcome: the cache is invalidated and success is reported.
C25_PreviousImageDeletedOnlyAfterPatch ==
  /\ \A i \in DOMAIN editLog :
       editLog[i].request = "delete" =>
         /\ \E j \in EditRequests("patch", "ok") : j < i
         /\ \E s \in Slots : /\ editLog[i].url = editInitial[s]
                             /\ editInitial[s] # editImageUrls[s]
  /\ EditRequests("patch", "ok") = {} => StoredObjects \subseteq editStorage
  /\ EditRequests("patch", "failed") # {} =>
       /\ \A i \in DOMAIN editLog : editLog[i].request # "delete"
       /\ editOutcome = [toast |-> "warning", invalidated |-> FALSE]
  /\ (EditRequests("patch", "ok") # {} /\ EditRequests("delete", "pending") = {}) =>
       /\ editPc.at = "left"
       /\ editOutcome = [toast |-> "success", invalidated |-> TRUE]

\* C25's case: a creature edit that replaced both images has ended; the delete
\* of one previous image failed, the other succeeded, and success is reported.
C25_Witness ==
  /\ editPc.at = "left"
  /\ EditRequests("delete", "failed") # {}
  /\ EditRequests("delete", "ok") # {}
  /\ editOutcome.toast = "success"
  /\ editOutcome.invalidated
  /\ ~(StoredObjects \subseteq editStorage)
----------------------------------------------------------------------------
(***************************************************************************)
(* Claims about deleteMainSkill, checked under SpecDelete.                 *)
(***************************************************************************)
StepsOf(step) == {i \in DOMAIN trail.steps : trail.steps[i].step = step}
StepsEnded(step, o) == {i \in StepsOf(step) : trail.steps[i].outcome = o}
DeleteEnded == call.op = "delete" /\ call.pc \in {"returned", "threw"}

\* What C26 says of the parent delete and of the image: the level delete comes
\* before the parent delete; when the parent delete fails the call throws, with
\* the level rows possibly removed, and the image is not deleted; the image is
\* deleted only after the parent row was deleted.
ParentAndImageOrder ==
  /\ \A i \in StepsOf("parent") : \E j \in StepsOf("levels") : j < i
  /\ \A i \in StepsOf("image") : \E j \in StepsEnded("parent", "ok") : j < i
  /\ (DeleteEnded /\ StepsOf("parent") # {} /\ StepsEnded("parent", "ok") = {}) =>
       /\ call.pc = "threw"
       /\ StepsOf("image") = {}
       /\ trail.deleted = {}
       /\ backend.skill = trail.before.skill

\* C26 as the spec states it: deleteMainSkill goes on to the parent delete
\* whenever the level delete failed, refused or unanswered.
C26_ContinuesAfterAnyChildFailure ==
  /\ ParentAndImageOrder
  /\ (DeleteEnded /\ StepsOf("levels") # {} /\ StepsEnded("levels", "ok") = {}) =>
       StepsOf("parent") # {}

\* C26: deleteMainSkill issues the level delete before the parent delete and
\* goes on to the parent delete when the level delete was refused (non-2xx);
\* when the level delete got no answer (fetch rejects) the call throws that
\* error and requests nothing more.  When the parent delete fails the call
\* throws, with the level rows possibly removed, and the image is not deleted;
\* the image is deleted only after the parent row was deleted.
C26_ContinuesAfterRefusedChildDelete ==
  /\ ParentAndImageOrder
  /\ (DeleteEnded /\ StepsEnded("levels", "rejected") # {}) => StepsOf("parent") # {}
  /\ (DeleteEnded /\ StepsEnded("levels", "unreachable") # {}) =>
       /\ call.pc = "threw"
       /\ call.error = "network"
       /\ StepsOf("parent") = {}
       /\ StepsOf("image") = {}
       /\ backend.skill = trail.before.skill

\* C26's case: the level delete was refused, the call went on to the parent
\* delete, which was refused too: the call threw and the image of the row is
\* still in storage.
C26_Witness ==
  /\ DeleteEnded
  /\ StepsEnded("levels", "rejected") # {}
  /\ StepsEnded("parent", "rejected") # {}
  /\ call.pc = "threw"
  /\ call.error = "deleteFailed"
  /\ backend.skill.image_url = PublicUrl(1)
  /\ 1 \in backend.blobs
----------------------------------------------------------------------------
(***************************************************************************)
(* Login against a bootstrap that is still running.                        *)
(***************************************************************************)

\* A login has completed and is in effect while the bootstrap that read the
\* storage before it is still running: no login is in progress, the session
\* held in memory is one a login created and storage holds it too.
LoginInEffect ==
  /\ ~disposed
  /\ bootSession # session
  /\ loginPc = "idle"
  /\ logoutPc = "idle"
  /\ session >= 2
  /\ persisted = session

\* C28: a successful login is never undone by the bootstrap: a step of a
\* bootstrap that is still running when the login has completed leaves the
\* login session in memory and in the persisted storage.
C28_BootstrapKeepsCompletedLogin ==
  [][(LoginInEffect /\ bootPc \in {"user", "profile"} /\ bootPc' # bootPc)
       => (session' = session /\ persisted' = session)]_vars
----------------------------------------------------------------------------
(***************************************************************************)
(* Retrying the creature list after a failed load.                         *)
(***************************************************************************)

\* The call that just returned was made after the asset tables had failed
\* to load, and every read the call itself waited for was answered.
RetriedWithHealthyBackend ==
  /\ kind = "dex"
  /\ lastResult.source # "none"
  /\ lastResult.assets = "rejected"
  /\ \A i \in 1..Len(lastResult.answers) : lastResult.answers[i]

\* C29: a failed creature-list load can be retried: a call of
\* fetchDexEntries made after an earlier load failed on the main-skill,
\* berry or ingredient tables, and answered successfully by the backend,
\* returns source 'supabase'.
C29_RetryAfterFailedLoadSucceeds ==
  RetriedWithHealthyBackend => lastResult.source = "supabase"
----------------------------------------------------------------------------
(***************************************************************************)
(* The image of the stored main-skill row after a write workflow ended.    *)
(***************************************************************************)

\* C30: after createMainSkillWithLevels or updateMainSkillWithLevels has
\* returned or thrown, the stored main-skill row does not point to a blob
\* the call itself deleted.
C30_StoredRowNeverPointsToDeletedBlob ==
  (/\ call.op \in {"create", "update"}
   /\ call.pc \in {"returned", "threw"}
   /\ backend.skill.exists)
    => tryExtractStorageObjectPath(backend.skill.image_url) \notin trail.deleted

====
